---------------------------- MODULE Spec2Model ----------------------------
(***************************************************************************)
(* A model of the network-stack layer of squidasm's qoala simulator:       *)
(*   - PhysicalQuantumMemory / NVPhysicalQuantumMemory (sim/common.py),    *)
(*   - PortListener and ComponentProtocol._receive_msg (sim/common.py),    *)
(*   - the Netstack request handlers and dispatch loop (sim/netstack.py).  *)
(*                                                                         *)
(* Each part of the program has its own specification over the module's    *)
(* variables; the variables a specification does not use stay at their     *)
(* initial value.                                                          *)
(***************************************************************************)
EXTENDS Integers, Sequences, FiniteSets, TLC

(***************************************************************************)
(* Bounds of the model.                                                    *)
(***************************************************************************)
\* Largest qubit_count a PhysicalQuantumMemory is constructed with.
MaxQubits == 3

(***************************************************************************)
(* PhysicalQuantumMemory                                                   *)
(***************************************************************************)
VARIABLES
    qubit_count,        \* PhysicalQuantumMemory._qubit_count
    allocated_ids,      \* PhysicalQuantumMemory._allocated_ids
    comm_qubit_ids,     \* PhysicalQuantumMemory._comm_qubit_ids
    allocated_is_dict,  \* TRUE once clear() has rebound _allocated_ids to {} (a dict)
    last_call           \* the last allocator call: its name, argument, outcome and
                        \* the allocated set it was made on

allocVars == <<qubit_count, allocated_ids, comm_qubit_ids, allocated_is_dict, last_call>>

\* The exceptions an allocator call can end in.
AllocError == "AllocError"          \* raise AllocError(...)
KeyError == "KeyError"              \* set.remove of a missing element
AttributeError == "AttributeError"  \* {}.add / {}.remove: a dict has neither
NoExc == "none"

\* The value of a scan that falls off the end of range(qubit_count).
NoId == -1

NoCall == [op |-> "none", arg |-> NoId, res |-> NoId, exc |-> NoExc, pre |-> {}]

\* range(self._qubit_count)
QubitRange(cnt) == 0 .. (cnt - 1)

\* The loop of allocate(): the first i of range(cnt), in order, not in alloc.
RECURSIVE allocate_scan(_, _, _)
allocate_scan_from_top(i, cnt, alloc) ==
    LET free_ids == {j \in QubitRange(cnt) : j \notin alloc}
    IN  IF free_ids = {} THEN NoId
        ELSE CHOOSE j \in free_ids : \A k \in free_ids : k <= j
allocate_scan(i, cnt, alloc) ==
    IF i >= cnt THEN NoId
    ELSE IF i \notin alloc THEN i
    ELSE allocate_scan(i + 1, cnt, alloc)

\* The loop of allocate_comm(): the first i not in alloc and in comm.
RECURSIVE allocate_comm_scan(_, _, _, _)
allocate_comm_scan_any(i, cnt, alloc, comm) ==
    LET ids == {j \in QubitRange(cnt) : j \in comm}
    IN  IF ids = {} THEN NoId
        ELSE CHOOSE j \in ids : \A k \in ids : j <= k
allocate_comm_scan(i, cnt, alloc, comm) ==
    IF i >= cnt THEN NoId
    ELSE IF i \notin alloc /\ i \in comm THEN i
    ELSE allocate_comm_scan(i + 1, cnt, alloc, comm)

\* The loop of allocate_mem(): the first i not in alloc and not in comm.
RECURSIVE allocate_mem_scan(_, _, _, _)
allocate_mem_scan_any_free(i, cnt, alloc, comm) ==
    LET ids == {j \in QubitRange(cnt) : j \notin alloc}
    IN  IF ids = {} THEN NoId
        ELSE CHOOSE j \in ids : \A k \in ids : j <= k
allocate_mem_scan(i, cnt, alloc, comm) ==
    IF i >= cnt THEN NoId
    ELSE IF i \notin alloc /\ i \notin comm THEN i
    ELSE allocate_mem_scan(i + 1, cnt, alloc, comm)

\* The tail of an allocate* call on the outcome of its scan:
\* self._allocated_ids.add(i); return i, or raise AllocError.  After clear()
\* the attribute is a dict and add raises before anything is stored.
AllocCall(op, found) ==
    /\ last_call' = [op |-> op, arg |-> NoId, pre |-> allocated_ids,
                     res |-> IF allocated_is_dict THEN NoId ELSE found,
                     exc |-> IF found = NoId THEN AllocError
                             ELSE IF allocated_is_dict THEN AttributeError
                             ELSE NoExc]
    /\ allocated_ids' = IF found = NoId \/ allocated_is_dict
                        THEN allocated_ids
                        ELSE allocated_ids \cup {found}
    /\ UNCHANGED <<qubit_count, comm_qubit_ids, allocated_is_dict>>

allocate ==
    AllocCall("allocate", allocate_scan(0, qubit_count, allocated_ids))

allocate_comm ==
    AllocCall("allocate_comm",
              allocate_comm_scan(0, qubit_count, allocated_ids, comm_qubit_ids))

allocate_mem ==
    AllocCall("allocate_mem",
              allocate_mem_scan(0, qubit_count, allocated_ids, comm_qubit_ids))

\* free(id): set.remove(id), KeyError when id is not in the set.
free_discard(id) ==
    /\ last_call' = [op |-> "free", arg |-> id, pre |-> allocated_ids, res |-> NoId,
                     exc |-> NoExc]
    /\ allocated_ids' = allocated_ids \ {id}
    /\ UNCHANGED <<qubit_count, comm_qubit_ids, allocated_is_dict>>
free(id) ==
    /\ last_call' = [op |-> "free", arg |-> id, pre |-> allocated_ids, res |-> NoId,
                     exc |-> IF allocated_is_dict THEN AttributeError
                             ELSE IF id \in allocated_ids THEN NoExc
                             ELSE KeyError]
    /\ allocated_ids' = IF allocated_is_dict THEN allocated_ids
                        ELSE allocated_ids \ {id}
    /\ UNCHANGED <<qubit_count, comm_qubit_ids, allocated_is_dict>>

\* is_allocated(id): a read.
is_allocated(id) == id \in allocated_ids

\* clear(): self._allocated_ids = {}  (an empty dict, not a set).
clear ==
    /\ allocated_ids' = {}
    /\ allocated_is_dict' = TRUE
    /\ last_call' = [op |-> "clear", arg |-> NoId, pre |-> allocated_ids,
                     res |-> NoId, exc |-> NoExc]
    /\ UNCHANGED <<qubit_count, comm_qubit_ids>>

\* PhysicalQuantumMemory.__init__ / NVPhysicalQuantumMemory.__init__
MemoryInit(cnt, nv) ==
    /\ qubit_count = cnt
    /\ allocated_ids = {}
    /\ comm_qubit_ids = IF nv THEN {0} ELSE QubitRange(cnt)
    /\ allocated_is_dict = FALSE
    /\ last_call = NoCall

\* The allocator as its callers see it: any call, in any order.
InitAlloc ==
    \E cnt \in 0 .. MaxQubits, nv \in BOOLEAN : MemoryInit(cnt, nv)

(***************************************************************************)
(* PortListener and ComponentProtocol._receive_msg                         *)
(*                                                                         *)
(* A port holds the inputs that have arrived and were not read yet; every  *)
(* arrival schedules one input event.  rx_input() takes the oldest input   *)
(* or yields None.  Messages are numbered in arrival order.                *)
(***************************************************************************)
\* Most messages that arrive on the port in one behaviour.
MaxMsgs == 4
\* Most items one input carries.
MaxItems == 2

VARIABLES
    port_inputs,    \* the port: inputs not yet read, oldest first; an input is its items
    port_events,    \* input events scheduled and not yet yielded on
    listener_pc,    \* PortListener.run: "await_input" (line 27) or "flush" (line 40)
    counter,        \* PortListener.run's counter
    buffer,         \* PortListener._buffer
    recv_pc,        \* the caller of _receive_msg: "idle", "await_signal" (line 64),
                    \* "resumed" (signalled, about to run line 65), "IndexError"
    returned,       \* the messages _receive_msg has returned, in order
    arrived,        \* the messages that have arrived on the port, in order
    sig_count,      \* how often the listener has sent its wake signal
    episodes,       \* how many wake episodes the listener has begun
    episode_k       \* the number of inputs the latest episode found pending

lstVars == <<port_inputs, port_events, listener_pc, counter, buffer, recv_pc,
             returned, arrived, sig_count, episodes, episode_k>>

\* The concatenation of the items of a sequence of inputs.
RECURSIVE Items(_)
Items(inputs) ==
    IF inputs = <<>> THEN <<>> ELSE Head(inputs) \o Items(Tail(inputs))

\* The inner loop of run (lines 31-36): rx_input() until None, buffer += items,
\* counter += 1.
RECURSIVE drain(_, _, _)
drain(buf, inputs, cnt) ==
    IF inputs = <<>> THEN [buffer |-> buf, counter |-> cnt]
    ELSE drain(buf \o Head(inputs), Tail(inputs), cnt + 1)

\* send_signal(self._signal_label): a point-in-time event; it resumes the
\* caller of _receive_msg if that caller is suspended on it now.
send_signal_each(n) ==
    /\ sig_count' = sig_count + n
    /\ recv_pc' = IF recv_pc = "await_signal" THEN "resumed" ELSE recv_pc
send_signal(n) ==
    /\ sig_count' = sig_count + 1
    /\ recv_pc' = IF recv_pc = "await_signal" THEN "resumed" ELSE recv_pc

\* A message (an input of n items) arrives on the port.
PortArrive ==
    \E n \in 1 .. MaxItems :
        /\ Len(arrived) + n <= MaxMsgs
        /\ LET items == [k \in 1 .. n |-> Len(arrived) + k]
           IN  /\ port_inputs' = Append(port_inputs, items)
               /\ arrived' = arrived \o items
        /\ port_events' = port_events + 1
        /\ UNCHANGED <<listener_pc, counter, buffer, recv_pc, returned,
                       sig_count, episodes, episode_k>>

\* run, from the yield of line 27 to the next yield: drain the port, then
\* either start flushing the extra events or send the signal.
ListenerWake ==
    /\ listener_pc = "await_input"
    /\ port_events > 0
    /\ port_events' = port_events - 1
    /\ LET d == drain(buffer, port_inputs, 0)
       IN  /\ buffer' = d.buffer
           /\ counter' = d.counter
           /\ episode_k' = d.counter
           /\ IF d.counter > 1
              THEN /\ listener_pc' = "flush"
                   /\ UNCHANGED <<sig_count, recv_pc>>
              ELSE /\ listener_pc' = "await_input"
                   /\ send_signal(d.counter)
    /\ port_inputs' = <<>>
    /\ episodes' = episodes + 1
    /\ UNCHANGED <<returned, arrived>>

\* run, resumed at the yield of line 40: counter -= 1, and the signal once
\* the extra events are flushed.
ListenerFlushOneMore ==
    /\ listener_pc = "flush"
    /\ port_events > 0
    /\ port_events' = port_events - 1
    /\ counter' = counter - 1
    /\ IF counter - 1 > 0
       THEN UNCHANGED <<listener_pc, sig_count, recv_pc>>
       ELSE /\ listener_pc' = "await_input"
            /\ send_signal(episode_k)
    /\ UNCHANGED <<port_inputs, buffer, returned, arrived, episodes, episode_k>>
ListenerFlush ==
    /\ listener_pc = "flush"
    /\ port_events > 0
    /\ port_events' = port_events - 1
    /\ counter' = counter - 1
    /\ IF counter - 1 > 1
       THEN UNCHANGED <<listener_pc, sig_count, recv_pc>>
       ELSE /\ listener_pc' = "await_input"
            /\ send_signal(episode_k)
    /\ UNCHANGED <<port_inputs, buffer, returned, arrived, episodes, episode_k>>

\* listener.buffer.pop(0)
buffer_pop_last(buf) == [msg |-> buf[Len(buf)], rest |-> SubSeq(buf, 1, Len(buf) - 1)]
buffer_pop(buf) == [msg |-> Head(buf), rest |-> Tail(buf)]

\* _receive_msg is called (lines 62-65): return at once from a non-empty
\* buffer, else suspend on the wake signal.
ReceiveMsgCall ==
    /\ recv_pc = "idle"
    /\ IF Len(buffer) = 0
       THEN /\ recv_pc' = "await_signal"
            /\ UNCHANGED <<buffer, returned>>
       ELSE /\ buffer' = buffer_pop(buffer).rest
            /\ returned' = Append(returned, buffer_pop(buffer).msg)
            /\ recv_pc' = "idle"
    /\ UNCHANGED <<port_inputs, port_events, listener_pc, counter, arrived,
                   sig_count, episodes, episode_k>>

\* _receive_msg resumed after the signal: line 65, pop(0) of whatever the
\* buffer holds now (IndexError on an empty list).
ReceiveMsgResume ==
    /\ recv_pc = "resumed"
    /\ IF Len(buffer) = 0
       THEN /\ recv_pc' = "IndexError"
            /\ UNCHANGED <<buffer, returned>>
       ELSE /\ buffer' = buffer_pop(buffer).rest
            /\ returned' = Append(returned, buffer_pop(buffer).msg)
            /\ recv_pc' = "idle"
    /\ UNCHANGED <<port_inputs, port_events, listener_pc, counter, arrived,
                   sig_count, episodes, episode_k>>

\* PortListener.__init__ and a caller that has not called yet.
ListenerInit ==
    /\ port_inputs = <<>>
    /\ port_events = 0
    /\ listener_pc = "await_input"
    /\ counter = 0
    /\ buffer = <<>>
    /\ recv_pc = "idle"
    /\ returned = <<>>
    /\ arrived = <<>>
    /\ sig_count = 0
    /\ episodes = 0
    /\ episode_k = 0

(***************************************************************************)
(* The breakpoint rendezvous of two stacks                                 *)
(*                                                                         *)
(* Two nodes, 0 and 1, each with its Netstack and its processor.  A stack  *)
(* has a listener on the port from its processor and one on the port from  *)
(* its peer; _receive_processor_msg and _receive_peer_msg take the oldest  *)
(* message of the listener's buffer, suspending while it is empty.         *)
(***************************************************************************)
\* Rendezvous each processor asks for in one behaviour.
MaxRounds == 2

Stacks == {0, 1}
PeerOf(s) == 1 - s

VARIABLES
    bp_creator,     \* the node whose processor submits NetstackBreakpointCreateRequest
    bp_pc,          \* per stack: where Netstack.run or the breakpoint handler stands
    peer_port,      \* per stack: messages from the peer, sent and not yet read by the listener
    peer_buffer,    \* per stack: buffer of the listener "peer_<peer>"
    proc_port,      \* per stack: messages from the processor, not yet read by the listener
    proc_buffer,    \* per stack: buffer of the listener "processor"
    to_proc,        \* per stack: what it has sent on processor_out_port, in order
    proc_pc,        \* per processor: where it stands in the rendezvous
    proc_seen,      \* per processor: how many messages of to_proc it has read
    rounds,         \* per processor: rendezvous it has seen finished
    peer_sent       \* per stack: what it has sent to its peer, in order

bpVars == <<bp_creator, bp_pc, peer_port, peer_buffer, proc_port, proc_buffer,
            to_proc, proc_pc, proc_seen, rounds, peer_sent>>

\* _send_peer_msg(peer, Message(content=c)) by stack s
SendPeer(s, c) ==
    /\ peer_port' = [peer_port EXCEPT ![PeerOf(s)] = Append(@, c)]
    /\ peer_sent' = [peer_sent EXCEPT ![s] = Append(@, c)]
\* _send_processor_msg(Message(content=c)) by stack s
SendProcessor(s, c) == to_proc' = [to_proc EXCEPT ![s] = Append(@, c)]
\* the message _receive_peer_msg returns to stack s, and its effect
PeerMsg(s) == Head(peer_buffer[s])
PopPeer(s) == peer_buffer' = [peer_buffer EXCEPT ![s] = Tail(@)]
\* the message _receive_processor_msg returns to stack s, and its effect
ProcMsg(s) == Head(proc_buffer[s])
PopProc(s) == proc_buffer' = [proc_buffer EXCEPT ![s] = Tail(@)]
Goto(s, l) == bp_pc' = [bp_pc EXCEPT ![s] = l]

\* Netstack.run (lines 745-763): take the next processor message and
\* dispatch on the kind of its content; run the chosen handler to its first
\* yield.  Content that is none of the request kinds is dropped.
RunDispatch(s) ==
    /\ bp_pc[s] = "run"
    /\ proc_buffer[s] # <<>>
    /\ PopProc(s)
    /\ CASE ProcMsg(s) = "BreakpointCreate" ->
                \* handle_breakpoint_create_request, lines 693-696
                /\ SendPeer(s, "breakpoint start")
                /\ Goto(s, "bc_recv_start")
         [] ProcMsg(s) = "BreakpointReceive" ->
                \* handle_breakpoint_receive_request, lines 722-724
                /\ Goto(s, "br_recv_start")
                /\ UNCHANGED <<peer_port, peer_sent>>
         [] OTHER ->
                /\ Goto(s, "run")
                /\ UNCHANGED <<peer_port, peer_sent>>
    /\ UNCHANGED <<bp_creator, peer_buffer, proc_port, to_proc, proc_pc, proc_seen, rounds>>

\* handle_breakpoint_create_request, lines 696-703
BCRecvStart(s) ==
    /\ bp_pc[s] = "bc_recv_start"
    /\ peer_buffer[s] # <<>>
    /\ PopPeer(s)
    /\ IF PeerMsg(s) = "breakpoint start"
       THEN /\ SendProcessor(s, "breakpoint ready")
            /\ Goto(s, "bc_recv_proc")
       ELSE /\ Goto(s, "AssertionError")
            /\ UNCHANGED to_proc
    /\ UNCHANGED <<bp_creator, peer_port, peer_sent, proc_port, proc_buffer, proc_pc, proc_seen, rounds>>

\* handle_breakpoint_create_request, lines 703-710
BCRecvProcFinishEarly(s) ==
    /\ bp_pc[s] = "bc_recv_proc"
    /\ proc_buffer[s] # <<>>
    /\ PopProc(s)
    /\ IF ProcMsg(s) = "breakpoint end"
       THEN /\ SendPeer(s, "breakpoint end")
            /\ SendProcessor(s, "breakpoint finished")
            /\ Goto(s, "bc_recv_end")
       ELSE /\ Goto(s, "AssertionError")
            /\ UNCHANGED <<peer_port, peer_sent, to_proc>>
    /\ UNCHANGED <<bp_creator, peer_buffer, proc_port, proc_pc, proc_seen, rounds>>
BCRecvProcNoSend(s) ==
    /\ bp_pc[s] = "bc_recv_proc"
    /\ proc_buffer[s] # <<>>
    /\ PopProc(s)
    /\ IF ProcMsg(s) = "breakpoint end"
       THEN Goto(s, "bc_recv_end")
       ELSE Goto(s, "AssertionError")
    /\ UNCHANGED <<bp_creator, peer_port, peer_sent, peer_buffer, proc_port, to_proc, proc_pc,
                   proc_seen, rounds>>
BCRecvProc(s) ==
    /\ bp_pc[s] = "bc_recv_proc"
    /\ proc_buffer[s] # <<>>
    /\ PopProc(s)
    /\ IF ProcMsg(s) = "breakpoint end"
       THEN /\ SendPeer(s, "breakpoint end")
            /\ Goto(s, "bc_recv_end")
       ELSE /\ Goto(s, "AssertionError")
            /\ UNCHANGED <<peer_port, peer_sent>>
    /\ UNCHANGED <<bp_creator, peer_buffer, proc_port, to_proc, proc_pc, proc_seen, rounds>>

\* handle_breakpoint_create_request, lines 710-714
BCRecvEndLenient(s) ==
    /\ bp_pc[s] = "bc_recv_end"
    /\ peer_buffer[s] # <<>>
    /\ PopPeer(s)
    /\ SendProcessor(s, "breakpoint finished")
    /\ Goto(s, "run")
    /\ UNCHANGED <<bp_creator, peer_port, peer_sent, proc_port, proc_buffer, proc_pc,
                   proc_seen, rounds>>
BCRecvEnd(s) ==
    /\ bp_pc[s] = "bc_recv_end"
    /\ peer_buffer[s] # <<>>
    /\ PopPeer(s)
    /\ IF PeerMsg(s) = "breakpoint end"
       THEN /\ SendProcessor(s, "breakpoint finished")
            /\ Goto(s, "run")
       ELSE /\ Goto(s, "AssertionError")
            /\ UNCHANGED to_proc
    /\ UNCHANGED <<bp_creator, peer_port, peer_sent, proc_port, proc_buffer, proc_pc, proc_seen, rounds>>

\* handle_breakpoint_receive_request, lines 724-732
BRRecvStartNoStart(s) ==
    /\ bp_pc[s] = "br_recv_start"
    /\ peer_buffer[s] # <<>>
    /\ PopPeer(s)
    /\ IF PeerMsg(s) = "breakpoint start"
       THEN /\ SendProcessor(s, "breakpoint ready")
            /\ Goto(s, "br_recv_proc")
       ELSE /\ Goto(s, "AssertionError")
            /\ UNCHANGED to_proc
    /\ UNCHANGED <<bp_creator, peer_port, peer_sent, proc_port, proc_buffer, proc_pc,
                   proc_seen, rounds>>
BRRecvStart(s) ==
    /\ bp_pc[s] = "br_recv_start"
    /\ peer_buffer[s] # <<>>
    /\ PopPeer(s)
    /\ IF PeerMsg(s) = "breakpoint start"
       THEN /\ SendPeer(s, "breakpoint start")
            /\ SendProcessor(s, "breakpoint ready")
            /\ Goto(s, "br_recv_proc")
       ELSE /\ Goto(s, "AssertionError")
            /\ UNCHANGED <<peer_port, peer_sent, to_proc>>
    /\ UNCHANGED <<bp_creator, proc_port, proc_buffer, proc_pc, proc_seen, rounds>>

\* handle_breakpoint_receive_request, lines 732-736
BRRecvProcSendsEnd(s) ==
    /\ bp_pc[s] = "br_recv_proc"
    /\ proc_buffer[s] # <<>>
    /\ PopProc(s)
    /\ IF ProcMsg(s) = "breakpoint end"
       THEN /\ SendPeer(s, "breakpoint end")
            /\ Goto(s, "br_recv_end")
       ELSE /\ Goto(s, "AssertionError")
            /\ UNCHANGED <<peer_port, peer_sent>>
    /\ UNCHANGED <<bp_creator, peer_buffer, proc_port, to_proc, proc_pc, proc_seen, rounds>>
BRRecvProc(s) ==
    /\ bp_pc[s] = "br_recv_proc"
    /\ proc_buffer[s] # <<>>
    /\ PopProc(s)
    /\ IF ProcMsg(s) = "breakpoint end"
       THEN Goto(s, "br_recv_end")
       ELSE Goto(s, "AssertionError")
    /\ UNCHANGED <<bp_creator, peer_port, peer_sent, peer_buffer, proc_port, to_proc, proc_pc,
                   proc_seen, rounds>>

\* handle_breakpoint_receive_request, lines 736-741
BRRecvEndTwice(s) ==
    /\ bp_pc[s] = "br_recv_end"
    /\ peer_buffer[s] # <<>>
    /\ PopPeer(s)
    /\ IF PeerMsg(s) = "breakpoint end"
       THEN /\ SendPeer(s, "breakpoint end")
            /\ to_proc' = [to_proc EXCEPT
                    ![s] = @ \o <<"breakpoint finished", "breakpoint finished">>]
            /\ Goto(s, "run")
       ELSE /\ Goto(s, "AssertionError")
            /\ UNCHANGED <<peer_port, peer_sent, to_proc>>
    /\ UNCHANGED <<bp_creator, proc_port, proc_buffer, proc_pc, proc_seen, rounds>>
BRRecvEnd(s) ==
    /\ bp_pc[s] = "br_recv_end"
    /\ peer_buffer[s] # <<>>
    /\ PopPeer(s)
    /\ IF PeerMsg(s) = "breakpoint end"
       THEN /\ SendPeer(s, "breakpoint end")
            /\ SendProcessor(s, "breakpoint finished")
            /\ Goto(s, "run")
       ELSE /\ Goto(s, "AssertionError")
            /\ UNCHANGED <<peer_port, peer_sent, to_proc>>
    /\ UNCHANGED <<bp_creator, proc_port, proc_buffer, proc_pc, proc_seen, rounds>>

\* PortListener.run of the listener "peer_<peer>" of stack s: one wake
\* episode moves what is pending on the port to the buffer.
PeerListener(s) ==
    /\ peer_port[s] # <<>>
    /\ peer_buffer' = [peer_buffer EXCEPT ![s] = @ \o peer_port[s]]
    /\ peer_port' = [peer_port EXCEPT ![s] = <<>>]
    /\ UNCHANGED peer_sent
    /\ UNCHANGED <<bp_creator, bp_pc, proc_port, proc_buffer, to_proc, proc_pc,
                   proc_seen, rounds>>

\* PortListener.run of the listener "processor" of stack s.
ProcListener(s) ==
    /\ proc_port[s] # <<>>
    /\ proc_buffer' = [proc_buffer EXCEPT ![s] = @ \o proc_port[s]]
    /\ proc_port' = [proc_port EXCEPT ![s] = <<>>]
    /\ UNCHANGED <<bp_creator, bp_pc, peer_port, peer_sent, peer_buffer, to_proc, proc_pc,
                   proc_seen, rounds>>

\* The processor of node s asks its stack for a breakpoint: the creating
\* node submits NetstackBreakpointCreateRequest, the other one
\* NetstackBreakpointReceiveRequest.
ProcSubmit(s) ==
    /\ proc_pc[s] = "idle"
    /\ rounds[s] < MaxRounds
    /\ proc_port' = [proc_port EXCEPT ![s] =
            Append(@, IF s = bp_creator THEN "BreakpointCreate" ELSE "BreakpointReceive")]
    /\ proc_pc' = [proc_pc EXCEPT ![s] = "wait_ready"]
    /\ UNCHANGED <<bp_creator, bp_pc, peer_port, peer_sent, peer_buffer, proc_buffer, to_proc,
                   proc_seen, rounds>>

\* The processor of node s reads the next message of its stack.
ProcRead(s) ==
    /\ proc_seen[s] < Len(to_proc[s])
    /\ proc_seen' = [proc_seen EXCEPT ![s] = @ + 1]
    /\ LET m == to_proc[s][proc_seen[s] + 1]
       IN  IF proc_pc[s] = "wait_ready" /\ m = "breakpoint ready"
           THEN proc_pc' = [proc_pc EXCEPT ![s] = "in_breakpoint"] /\ UNCHANGED rounds
           ELSE IF proc_pc[s] = "wait_finished" /\ m = "breakpoint finished"
           THEN /\ proc_pc' = [proc_pc EXCEPT ![s] = "idle"]
                /\ rounds' = [rounds EXCEPT ![s] = @ + 1]
           ELSE proc_pc' = [proc_pc EXCEPT ![s] = "confused"] /\ UNCHANGED rounds
    /\ UNCHANGED <<bp_creator, bp_pc, peer_port, peer_sent, peer_buffer, proc_port, proc_buffer, to_proc>>

\* The processor of node s is done with its breakpoint and says so.
ProcEnd(s) ==
    /\ proc_pc[s] = "in_breakpoint"
    /\ proc_port' = [proc_port EXCEPT ![s] = Append(@, "breakpoint end")]
    /\ proc_pc' = [proc_pc EXCEPT ![s] = "wait_finished"]
    /\ UNCHANGED <<bp_creator, bp_pc, peer_port, peer_sent, peer_buffer, proc_buffer, to_proc,
                   proc_seen, rounds>>

\* Messages outside the rendezvous, or out of turn, that arrive in one run.
MaxStrays == 1

\* How many of them have arrived.
VARIABLE strays

\* What the peer stack sends on the peer channel outside its breakpoint
\* handlers ("ready", line 675), or a breakpoint message out of turn.
StrayPeerContents == {"ready", "breakpoint start", "breakpoint end"}

\* A message that is not of the rendezvous, or not in its turn, arrives from
\* the peer of stack s.
PeerStray(s) ==
    \E c \in StrayPeerContents :
        /\ strays < MaxStrays
        /\ strays' = strays + 1
        /\ peer_port' = [peer_port EXCEPT ![s] = Append(@, c)]
        /\ UNCHANGED <<bp_creator, bp_pc, peer_buffer, proc_port, proc_buffer, to_proc,
                       proc_pc, proc_seen, rounds, peer_sent>>

\* The processor of node s sends its stack something else than what the
\* rendezvous expects next.
ProcStray(s) ==
    /\ strays < MaxStrays
    /\ strays' = strays + 1
    /\ proc_port' = [proc_port EXCEPT ![s] = Append(@, "other")]
    /\ UNCHANGED <<bp_creator, bp_pc, peer_port, peer_buffer, proc_buffer, to_proc,
                   proc_pc, proc_seen, rounds, peer_sent>>

\* Both stacks started (run is at its first _receive_processor_msg), no
\* message anywhere.
BreakpointInit(c) ==
    /\ bp_creator = c
    /\ bp_pc = [s \in Stacks |-> "run"]
    /\ peer_port = [s \in Stacks |-> <<>>]
    /\ peer_buffer = [s \in Stacks |-> <<>>]
    /\ proc_port = [s \in Stacks |-> <<>>]
    /\ proc_buffer = [s \in Stacks |-> <<>>]
    /\ to_proc = [s \in Stacks |-> <<>>]
    /\ proc_pc = [s \in Stacks |-> "idle"]
    /\ proc_seen = [s \in Stacks |-> 0]
    /\ rounds = [s \in Stacks |-> 0]
    /\ peer_sent = [s \in Stacks |-> <<>>]
    /\ strays = 0

StackStep(s) ==
    \/ RunDispatch(s)
    \/ BCRecvStart(s)
    \/ BCRecvProc(s)
    \/ BCRecvEnd(s)
    \/ BRRecvStart(s)
    \/ BRRecvProc(s)
    \/ BRRecvEnd(s)

(***************************************************************************)
(* The create-and-keep (CK) and measure-directly (MD) handlers of one      *)
(* stack                                                                   *)
(*                                                                         *)
(* One handler runs on the stack's PhysicalQuantumMemory (the allocator    *)
(* variables above).  Its environment: the entanglement service (EGP),     *)
(* which answers a put with one result signal per pair; the quantum        *)
(* processor executing a correction program; and the application, which    *)
(* frees qubits, each free being followed by SIGNAL_MEMORY_FREED.          *)
(***************************************************************************)
\* Most pairs one request asks for.
MaxPairs == 2
\* Largest qubit_count of the memory of a stack that runs a handler.
MaxStackQubits == 2

\* netqasm.sdk.build_epr: the layout of a result slice.
SER_RESPONSE_KEEP_LEN == 10
SER_RESPONSE_KEEP_IDX_GOODNESS == 7
SER_RESPONSE_KEEP_IDX_BELL_STATE == 9
SER_RESPONSE_MEASURE_LEN == 10
SER_RESPONSE_MEASURE_IDX_MEASUREMENT_OUTCOME == 2
SER_RESPONSE_MEASURE_IDX_MEASUREMENT_BASIS == 3

\* Simulated nanoseconds the service takes per pair and the processor per gate.
PairGenNs == 1500
GateNs == 700

\* netsquid BellIndex: B00, B01, B10, B11.
BellIndex == 0 .. 3
\* The ResMeasureDirectly results the service may report.
MDResults ==
    {[measurement_outcome |-> 0, measurement_basis |-> 1, bell_state |-> 2],
     [measurement_outcome |-> 1, measurement_basis |-> 0, bell_state |-> 3]}

CKKinds == {"create_ck", "receive_ck"}
MDKinds == {"create_md", "receive_md"}

VARIABLES
    ck_kind,        \* the handler: handle_{create,receive}_{ck,md}_request
    num_pairs,      \* request.number as the handler is entered
    ck_pc,          \* where the handler stands: "start", "wait_mem" (line 281/513),
                    \* "retry" (signalled, about to retry), "wait_egp" (the await of a
                    \* result), "wait_exec" (line 310/314/319), "done", or the
                    \* exception that ended it
    pair_index,     \* the loop variable; num_pairs once the loop has ended
    phys_id,        \* the handler's phys_id
    egp_puts,       \* the requests put to the EGP, in order, each with the pair it was
                    \* put for and the slot held at the put
    egp_pending,    \* results the EGP still owes
    egp_results,    \* the results the EGP has signalled, in order, each with the
                    \* simulated time of the signal
    ck_result,      \* result.bell_state of the latest ResCreateAndKeep
    md_results,     \* the MD handlers' results list
    array_writes,   \* the set_array_value calls on the result array: <<index, value>>
    notify_at,      \* per "wrote to array" message sent: the writes made before it
    virt_map,       \* per process, its quantum_mem's virtual-to-physical map, as
                    \* pairs <<virt, phys>>
    programs,       \* the correction programs executed: pair, instructions, qubit
    mem_signals,    \* SIGNAL_MEMORY_FREED emissions so far
    mem_waits,      \* how often the handler has suspended on SIGNAL_MEMORY_FREED
    alloc0,         \* the allocated set as the handler is entered
    sim_time,       \* ns.sim_time()
    start_time,     \* the handler's start_time
    qdev_shared,    \* whether the QDevice of _interface allocates from physical_memory
    qdev_allocated  \* the ids the QDevice holds when it keeps its own books

ckVars == <<ck_kind, num_pairs, ck_pc, pair_index, phys_id, egp_puts, egp_pending,
            egp_results, ck_result, md_results, array_writes, notify_at, virt_map, programs,
            mem_signals, mem_waits, alloc0, sim_time, start_time, qdev_shared,
            qdev_allocated>>

\* The processes of the node: req.pid and one other.
ReqPid == 0
Pids == {0, 1}

\* shared_mem.get_array_value(req.qubit_array_addr, i): the virtual ids the
\* application chose.
qubit_ids(i) == 10 + i

\* physical_memory.allocate_comm() on the allocated set alloc: the id found.
CommScan(alloc) == allocate_comm_scan(0, qubit_count, alloc, comm_qubit_ids)

\* int(gen_duration_ns_float / 1000)
gen_duration_us_int(now, start) == (now - start) \div 1000

\* The slice of pair pi in a CK handler (lines 335-348 / 553-566).
ck_slice_used_fields_only(pi, duration, bell) ==
    <<<<SER_RESPONSE_KEEP_LEN * pi + SER_RESPONSE_KEEP_IDX_GOODNESS, duration>>,
      <<SER_RESPONSE_KEEP_LEN * pi + SER_RESPONSE_KEEP_IDX_BELL_STATE, bell>>>>
ck_slice(pi, duration, bell) ==
    [i \in 1 .. SER_RESPONSE_KEEP_LEN |->
        <<SER_RESPONSE_KEEP_LEN * pi + (i - 1),
          IF i - 1 = SER_RESPONSE_KEEP_IDX_BELL_STATE THEN bell
          ELSE IF i - 1 = SER_RESPONSE_KEEP_IDX_GOODNESS THEN duration
          ELSE -1>>]

\* The slice of pair pi in an MD handler (lines 415-430 / 631-646).
md_slice(pi, result) ==
    [i \in 1 .. SER_RESPONSE_MEASURE_LEN |->
        <<SER_RESPONSE_MEASURE_LEN * pi + (i - 1),
          IF i - 1 = SER_RESPONSE_MEASURE_IDX_MEASUREMENT_OUTCOME
          THEN result.measurement_outcome
          ELSE IF i - 1 = SER_RESPONSE_MEASURE_IDX_MEASUREMENT_BASIS
          THEN result.measurement_basis
          ELSE IF i - 1 = SER_RESPONSE_KEEP_IDX_BELL_STATE
          THEN result.bell_state
          ELSE -1>>]

\* The Bell state corrections of handle_create_ck_request (lines 305-319).
correction_swapped(bell) ==
    CASE bell = 0 -> <<>>
      [] bell = 1 -> <<"ROT_Z">>
      [] bell = 2 -> <<"ROT_X">>
      [] bell = 3 -> <<"ROT_X", "ROT_Z">>
correction(bell) ==
    CASE bell = 0 -> <<>>
      [] bell = 1 -> <<"ROT_X">>
      [] bell = 2 -> <<"ROT_Z">>
      [] bell = 3 -> <<"ROT_X", "ROT_Z">>

\* Head of the CK loop for pair pi (lines 270-297 / 502-531): allocate_comm,
\* on AllocError suspend on SIGNAL_MEMORY_FREED, else put the one-pair
\* request and await its result.  pending: the results the EGP owes now.
CKLoopHeadBulk(pi, pending) ==
    IF pi >= num_pairs
    THEN /\ ck_pc' = "done"
         /\ pair_index' = pi
         /\ egp_pending' = pending
         /\ UNCHANGED <<phys_id, egp_puts, mem_waits, allocVars>>
    ELSE LET found == CommScan(allocated_ids)
         IN  /\ pair_index' = pi
             /\ last_call' = [op |-> "allocate_comm", arg |-> NoId, pre |-> allocated_ids,
                              res |-> found,
                              exc |-> IF found = NoId THEN AllocError ELSE NoExc]
             /\ UNCHANGED <<qubit_count, comm_qubit_ids, allocated_is_dict>>
             /\ IF found = NoId
                THEN /\ ck_pc' = "wait_mem"
                     /\ mem_waits' = mem_waits + 1
                     /\ egp_pending' = pending
                     /\ UNCHANGED <<allocated_ids, phys_id, egp_puts>>
                ELSE /\ allocated_ids' = allocated_ids \cup {found}
                     /\ phys_id' = found
                     /\ egp_puts' = IF pi = 0
                                    THEN Append(egp_puts,
                                        [req |-> IF ck_kind = "create_ck"
                                                 THEN "ReqCreateAndKeep" ELSE "ReqReceive",
                                         number |-> num_pairs, pair |-> pi,
                                         holding |-> found])
                                    ELSE egp_puts
                     /\ egp_pending' = IF pi = 0 THEN pending + num_pairs ELSE pending
                     /\ ck_pc' = "wait_egp"
                     /\ UNCHANGED mem_waits
CKLoopHeadPutAnyway(pi, pending) ==
    IF pi >= num_pairs
    THEN /\ ck_pc' = "done"
         /\ pair_index' = pi
         /\ egp_pending' = pending
         /\ UNCHANGED <<phys_id, egp_puts, mem_waits, allocVars>>
    ELSE LET found == CommScan(allocated_ids)
         IN  /\ pair_index' = pi
             /\ last_call' = [op |-> "allocate_comm", arg |-> NoId, pre |-> allocated_ids,
                              res |-> found,
                              exc |-> IF found = NoId THEN AllocError ELSE NoExc]
             /\ UNCHANGED <<qubit_count, comm_qubit_ids, allocated_is_dict>>
             /\ allocated_ids' = IF found = NoId THEN allocated_ids
                                 ELSE allocated_ids \cup {found}
             /\ phys_id' = found
             /\ egp_puts' = Append(egp_puts,
                    [req |-> IF ck_kind = "create_ck"
                             THEN "ReqCreateAndKeep" ELSE "ReqReceive",
                     number |-> 1, pair |-> pi, holding |-> found])
             /\ egp_pending' = pending + 1
             /\ ck_pc' = "wait_egp"
             /\ UNCHANGED mem_waits
CKLoopHead(pi, pending) ==
    IF pi >= num_pairs
    THEN /\ ck_pc' = "done"
         /\ pair_index' = pi
         /\ egp_pending' = pending
         /\ UNCHANGED <<phys_id, egp_puts, mem_waits, allocVars>>
    ELSE LET found == CommScan(allocated_ids)
         IN  /\ pair_index' = pi
             /\ last_call' = [op |-> "allocate_comm", arg |-> NoId, pre |-> allocated_ids,
                              res |-> found,
                              exc |-> IF found = NoId THEN AllocError ELSE NoExc]
             /\ UNCHANGED <<qubit_count, comm_qubit_ids, allocated_is_dict>>
             /\ IF found = NoId
                THEN /\ ck_pc' = "wait_mem"
                     /\ mem_waits' = mem_waits + 1
                     /\ egp_pending' = pending
                     /\ UNCHANGED <<allocated_ids, phys_id, egp_puts>>
                ELSE /\ allocated_ids' = allocated_ids \cup {found}
                     /\ phys_id' = found
                     /\ egp_puts' = Append(egp_puts,
                            [req |-> IF ck_kind = "create_ck"
                                     THEN "ReqCreateAndKeep" ELSE "ReqReceive",
                             number |-> 1, pair |-> pi, holding |-> found])
                     /\ egp_pending' = pending + 1
                     /\ ck_pc' = "wait_egp"
                     /\ UNCHANGED mem_waits

\* The rest of a CK iteration once the pair is there and corrected (lines
\* 321-353 / 538-571): map the virtual id, write the slice, notify the
\* processor; then the head of the next iteration.
CKFinishPairFirstId(bell, now, pending) ==
    /\ virt_map' = [virt_map EXCEPT ![ReqPid] =
                        {m \in @ : m[1] # qubit_ids(0)} \cup {<<qubit_ids(0), phys_id>>}]
    /\ array_writes' = array_writes \o
            ck_slice(pair_index, gen_duration_us_int(now, start_time), bell)
    /\ notify_at' = Append(notify_at, Len(array_writes) + SER_RESPONSE_KEEP_LEN)
    /\ CKLoopHead(pair_index + 1, pending)
CKFinishPairNotifyFirst(bell, now, pending) ==
    /\ virt_map' = [virt_map EXCEPT ![ReqPid] =
                        {m \in @ : m[1] # qubit_ids(pair_index)}
                            \cup {<<qubit_ids(pair_index), phys_id>>}]
    /\ array_writes' = array_writes \o
            ck_slice(pair_index, gen_duration_us_int(now, start_time), bell)
    /\ notify_at' = Append(notify_at, Len(array_writes))
    /\ CKLoopHead(pair_index + 1, pending)
CKFinishPair(bell, now, pending) ==
    /\ virt_map' = [virt_map EXCEPT ![ReqPid] =
                        {m \in @ : m[1] # qubit_ids(pair_index)}
                            \cup {<<qubit_ids(pair_index), phys_id>>}]
    /\ array_writes' = array_writes \o
            ck_slice(pair_index, gen_duration_us_int(now, start_time), bell)
    /\ notify_at' = Append(notify_at, Len(array_writes) + SER_RESPONSE_KEEP_LEN)
    /\ CKLoopHead(pair_index + 1, pending)

\* handle_create_ck_request / handle_receive_ck_request from its entry to
\* its first yield (lines 257-297 / 495-531).
CKBegin ==
    /\ ck_pc = "start"
    /\ ck_kind \in CKKinds
    /\ start_time' = sim_time
    /\ CKLoopHead(0, egp_pending)
    /\ UNCHANGED <<egp_results, ck_kind, num_pairs, ck_result, md_results, array_writes, notify_at,
                   virt_map, programs, mem_signals, alloc0, sim_time, qdev_shared,
                   qdev_allocated>>

\* The handler resumed by SIGNAL_MEMORY_FREED: "a 'free' happened, trying
\* again to allocate comm qubit" (the while True of lines 272-286 / 504-518).
CKRetry ==
    /\ ck_pc = "retry"
    /\ CKLoopHead(pair_index, egp_pending)
    /\ UNCHANGED <<egp_results, ck_kind, num_pairs, ck_result, md_results, array_writes, notify_at,
                   virt_map, programs, mem_signals, alloc0, sim_time, start_time,
                   qdev_shared, qdev_allocated>>

\* The EGP signals ResCreateAndKeep with Bell index bell and the handler
\* resumes (lines 299-319 / 533-536): the initiator runs the correction
\* program for a Bell index other than B00, the receiver none.
EgpResultCK ==
    \E bell \in BellIndex :
        /\ ck_pc = "wait_egp"
        /\ ck_kind \in CKKinds
        /\ egp_pending > 0
        /\ sim_time' = sim_time + PairGenNs
        /\ ck_result' = bell
        /\ egp_results' = Append(egp_results, [res |-> bell, at |-> sim_time + PairGenNs])
        /\ IF ck_kind = "create_ck" /\ correction(bell) # <<>>
           THEN /\ programs' = Append(programs,
                        [pair |-> pair_index, instrs |-> correction(bell),
                         qubit_indices |-> <<0>>])
                /\ ck_pc' = "wait_exec"
                /\ egp_pending' = egp_pending - 1
                /\ UNCHANGED <<pair_index, phys_id, egp_puts, mem_waits, allocVars,
                               array_writes, notify_at, virt_map>>
           ELSE /\ CKFinishPair(bell, sim_time + PairGenNs, egp_pending - 1)
                /\ UNCHANGED programs
        /\ UNCHANGED <<ck_kind, num_pairs, md_results, mem_signals, alloc0, start_time,
                       qdev_shared, qdev_allocated>>

\* qdevice.execute_program(prog) has completed; the initiator goes on (lines
\* 321-353) and enters the next iteration.
ExecDone ==
    /\ ck_pc = "wait_exec"
    /\ sim_time' = sim_time + GateNs * Len(correction(ck_result))
    /\ CKFinishPair(ck_result, sim_time + GateNs * Len(correction(ck_result)),
                    egp_pending)
    /\ UNCHANGED <<egp_results, ck_kind, num_pairs, ck_result, md_results, programs, mem_signals,
                   alloc0, start_time, qdev_shared, qdev_allocated>>

\* The slot the handler has allocated and not yet handed to the application.
HandlerHolds ==
    IF ck_pc \in {"wait_egp", "wait_exec"} /\ ~(ck_kind = "receive_md" /\ ~qdev_shared)
    THEN {phys_id} ELSE {}

\* The application frees a qubit it holds (one it had before the request or
\* one a finished pair was mapped to); the processor then sends
\* SIGNAL_MEMORY_FREED, which resumes a handler suspended on it.
AppFree ==
    \E id \in allocated_ids \ HandlerHolds :
        /\ free(id)
        /\ mem_signals' = mem_signals + 1
        /\ ck_pc' = IF ck_pc = "wait_mem" THEN "retry" ELSE ck_pc
        /\ UNCHANGED <<egp_results, ck_kind, num_pairs, pair_index, phys_id, egp_puts, egp_pending,
                       ck_result, md_results, array_writes, notify_at, virt_map,
                       programs, mem_waits, alloc0, sim_time, start_time, qdev_shared,
                       qdev_allocated>>

\* All slices of an MD request, in pair order.
RECURSIVE md_all_slices(_, _)
md_all_slices(results, pi) ==
    IF pi >= Len(results) THEN <<>>
    ELSE md_slice(pi, results[pi + 1]) \o md_all_slices(results, pi + 1)

\* The writes made before each "wrote to array" message of
\* handle_receive_md_request: one message per pair, inside the loop (line 648).
md_receive_notifications(n, base) ==
    [k \in 1 .. n |-> base + SER_RESPONSE_MEASURE_LEN * k]

\* Head of the MD loop for the pair after results (lines 392-395 / 608-611):
\* allocate_comm() with no handler around it, on physical_memory for the
\* initiator and on _interface.qdevice for the receiver; after the loop
\* (lines 406-432 / 622-648) the slices are written and the processor is
\* notified, once by the initiator and once per pair by the receiver.
\* alloc: physical_memory's allocated set now.
MDLoopHeadStreaming(results, alloc) ==
    /\ array_writes' = IF results = <<>> THEN array_writes
                       ELSE array_writes \o md_slice(Len(results) - 1, results[Len(results)])
    /\ notify_at' = IF results = <<>> THEN notify_at
                    ELSE Append(notify_at, Len(array_writes) + SER_RESPONSE_MEASURE_LEN)
    /\ IF Len(results) >= num_pairs
       THEN /\ ck_pc' = "done"
            /\ allocated_ids' = alloc
            /\ UNCHANGED <<phys_id, qdev_allocated>>
       ELSE LET found == CommScan(alloc)
            IN  IF found = NoId
                THEN /\ ck_pc' = AllocError
                     /\ allocated_ids' = alloc
                     /\ UNCHANGED <<phys_id, qdev_allocated>>
                ELSE /\ ck_pc' = "wait_egp"
                     /\ phys_id' = found
                     /\ allocated_ids' = alloc \cup {found}
                     /\ UNCHANGED qdev_allocated
MDLoopHead(results, alloc) ==
    IF Len(results) >= num_pairs
    THEN /\ array_writes' = array_writes \o md_all_slices(results, 0)
         /\ notify_at' = IF ck_kind = "create_md"
                         THEN Append(notify_at, Len(array_writes)
                                        + SER_RESPONSE_MEASURE_LEN * Len(results))
                         ELSE notify_at \o
                              md_receive_notifications(Len(results), Len(array_writes))
         /\ ck_pc' = "done"
         /\ allocated_ids' = alloc
         /\ UNCHANGED <<phys_id, qdev_allocated>>
    ELSE LET own == ck_kind = "receive_md" /\ ~qdev_shared
             found == CommScan(IF own THEN qdev_allocated ELSE alloc)
         IN  /\ UNCHANGED <<array_writes, notify_at>>
             /\ IF found = NoId
                THEN /\ ck_pc' = AllocError
                     /\ allocated_ids' = alloc
                     /\ UNCHANGED <<phys_id, qdev_allocated>>
                ELSE /\ ck_pc' = "wait_egp"
                     /\ phys_id' = found
                     /\ allocated_ids' = IF own THEN alloc ELSE alloc \cup {found}
                     /\ qdev_allocated' = IF own THEN qdev_allocated \cup {found}
                                          ELSE qdev_allocated

\* handle_create_md_request / handle_receive_md_request from its entry to
\* its first yield (lines 383-395 / 602-611): one put for the whole request.
MDBeginPutPerPair ==
    /\ ck_pc = "start"
    /\ ck_kind \in MDKinds
    /\ egp_puts' = Append(egp_puts,
            [req |-> IF ck_kind = "create_md" THEN "ReqMeasureDirectly" ELSE "ReqReceive",
             number |-> 1, pair |-> 0, holding |-> NoId])
    /\ egp_pending' = egp_pending + 1
    /\ md_results' = <<>>
    /\ MDLoopHead(<<>>, allocated_ids)
    /\ UNCHANGED <<egp_results, ck_kind, num_pairs, pair_index, ck_result, virt_map, programs,
                   mem_signals, mem_waits, alloc0, sim_time, start_time, qdev_shared,
                   qubit_count, comm_qubit_ids, allocated_is_dict, last_call>>
MDBegin ==
    /\ ck_pc = "start"
    /\ ck_kind \in MDKinds
    /\ egp_puts' = Append(egp_puts,
            [req |-> IF ck_kind = "create_md" THEN "ReqMeasureDirectly" ELSE "ReqReceive",
             number |-> num_pairs, pair |-> -1, holding |-> NoId])
    /\ egp_pending' = egp_pending + num_pairs
    /\ md_results' = <<>>
    /\ MDLoopHead(<<>>, allocated_ids)
    /\ UNCHANGED <<egp_results, ck_kind, num_pairs, pair_index, ck_result, virt_map, programs,
                   mem_signals, mem_waits, alloc0, sim_time, start_time, qdev_shared,
                   qubit_count, comm_qubit_ids, allocated_is_dict, last_call>>

\* The EGP signals ResMeasureDirectly and the handler resumes (lines 399-404 /
\* 615-620): keep the result, physical_memory.free(phys_id), next pair.
EgpResultMD ==
    \E result \in MDResults :
        /\ ck_pc = "wait_egp"
        /\ ck_kind \in MDKinds
        /\ egp_pending > 0
        /\ egp_pending' = egp_pending - 1
        /\ sim_time' = sim_time + PairGenNs
        /\ md_results' = Append(md_results, result)
        /\ egp_results' = Append(egp_results, [res |-> result, at |-> sim_time + PairGenNs])
        /\ IF phys_id \in allocated_ids
           THEN MDLoopHead(Append(md_results, result), allocated_ids \ {phys_id})
           ELSE /\ ck_pc' = KeyError
                /\ UNCHANGED <<allocated_ids, phys_id, qdev_allocated, array_writes,
                               notify_at>>
        /\ UNCHANGED <<ck_kind, num_pairs, pair_index, egp_puts, ck_result, virt_map,
                       programs, mem_signals, mem_waits, alloc0, start_time, qdev_shared,
                       qubit_count, comm_qubit_ids, allocated_is_dict, last_call>>

\* A handler is entered: kind of its request, number of pairs n, and the
\* qubits the application holds already, mapped in the other process.
HandlerInit(kind, n, held, shared) ==
    /\ ck_kind = kind
    /\ num_pairs = n
    /\ ck_pc = "start"
    /\ pair_index = 0
    /\ phys_id = NoId
    /\ egp_puts = <<>>
    /\ egp_pending = 0
    /\ egp_results = <<>>
    /\ ck_result = 0
    /\ md_results = <<>>
    /\ array_writes = <<>>
    /\ notify_at = <<>>
    /\ virt_map = [p \in Pids |->
                        IF p = ReqPid THEN {} ELSE {<<qubit_ids(id), id>> : id \in held}]
    /\ programs = <<>>
    /\ mem_signals = 0
    /\ mem_waits = 0
    /\ alloc0 = held
    /\ sim_time = 0
    /\ start_time = 0
    /\ qdev_shared = shared
    /\ qdev_allocated = {}

\* No handler: the state of these variables where no request is handled.
HandlerIdle == HandlerInit("none", 0, {}, TRUE) 

(***************************************************************************)
(* The dispatch loop of one stack (Netstack.run)                           *)
(*                                                                         *)
(* The processor submits messages at any time.  A handler is seen here as  *)
(* the sequence of its waits: "ext" for a wait on the peer, the EGP, the   *)
(* quantum processor or the memory, "proc" for a _receive_processor_msg    *)
(* (the breakpoint handlers, lines 703 and 732).  Messages are numbered in *)
(* the order the processor submits them.                                   *)
(***************************************************************************)
\* Most messages the processor submits in one behaviour.
MaxSubmits == 3
\* Most waits of a create or receive handler.
MaxYields == 2

RequestKinds == {"NetstackCreateRequest", "NetstackReceiveRequest",
                 "NetstackBreakpointCreateRequest", "NetstackBreakpointReceiveRequest"}
\* What else the processor sends on the same channel.
OtherContents == {"breakpoint end", "other"}

VARIABLES
    run_pc,         \* Netstack.run: "recv" (line 747), "handling" (inside a yield from
                    \* of lines 752-763), "crashed" (an exception left run)
    run_port,       \* messages from the processor not yet read by the listener
    run_buffer,     \* buffer of the listener "processor"
    run_todo,       \* the waits the handler in progress has still to go through
    run_current,    \* the number of the request whose handler is in progress, or 0
    submitted,      \* what the processor has submitted: number, content, and the
                    \* request in progress at that moment (0: none)
    dispatched,     \* the numbers of the requests run has dispatched, in order
    completed,      \* the numbers of the requests whose handler has returned
    active          \* the requests whose handler was entered and has not left

runVars == <<run_pc, run_port, run_buffer, run_todo, run_current, submitted,
             dispatched, completed, active>>

\* The waits of the handler of a request of kind k that will suspend n times
\* at most (handle_breakpoint_*: peer, processor, peer).
HandlerWaits(k, n) ==
    IF k \in {"NetstackBreakpointCreateRequest", "NetstackBreakpointReceiveRequest"}
    THEN <<"ext", "proc", "ext">>
    ELSE [j \in 1 .. n |-> "ext"]

\* The handler in progress returns: back to the head of run's loop.
HandlerReturns ==
    /\ run_pc' = "recv"
    /\ completed' = Append(completed, run_current)
    /\ active' = active \ {run_current}
    /\ run_current' = 0

\* The processor submits a message.
ProcessorSubmit ==
    \E c \in RequestKinds \cup OtherContents :
        /\ Len(submitted) < MaxSubmits
        /\ LET m == [id |-> Len(submitted) + 1, content |-> c, during |-> run_current]
           IN  /\ submitted' = Append(submitted, m)
               /\ run_port' = Append(run_port, m)
        /\ UNCHANGED <<run_pc, run_buffer, run_todo, run_current, dispatched,
                       completed, active>>

\* PortListener.run of the listener "processor".
RunListener ==
    /\ run_port # <<>>
    /\ run_buffer' = run_buffer \o run_port
    /\ run_port' = <<>>
    /\ UNCHANGED <<run_pc, run_todo, run_current, submitted, dispatched, completed,
                   active>>

\* Netstack.run, lines 747-763: take the next processor message; if its
\* content is a request, enter its handler (yield from), which runs to its
\* first wait or, having none, returns at once; other content is dropped.
RunDispatchNextAnyTime ==
    /\ run_pc \in {"recv", "handling"}
    /\ run_buffer # <<>>
    /\ run_buffer' = Tail(run_buffer)
    /\ Head(run_buffer).content \in RequestKinds
    /\ dispatched' = Append(dispatched, Head(run_buffer).id)
    /\ run_current' = Head(run_buffer).id
    /\ active' = active \cup {Head(run_buffer).id}
    /\ run_todo' = HandlerWaits(Head(run_buffer).content, 1)
    /\ run_pc' = "handling"
    /\ UNCHANGED <<run_port, submitted, completed>>
RunDispatchNext ==
    /\ run_pc = "recv"
    /\ run_buffer # <<>>
    /\ run_buffer' = Tail(run_buffer)
    /\ LET m == Head(run_buffer)
       IN  IF m.content \in RequestKinds
           THEN /\ dispatched' = Append(dispatched, m.id)
                /\ \/ \E n \in 0 .. MaxYields :
                        LET waits == HandlerWaits(m.content, n)
                        IN  IF waits = <<>>
                            THEN /\ completed' = Append(completed, m.id)
                                 /\ UNCHANGED <<run_pc, run_todo, run_current, active>>
                            ELSE /\ run_pc' = "handling"
                                 /\ run_todo' = waits
                                 /\ run_current' = m.id
                                 /\ active' = active \cup {m.id}
                                 /\ UNCHANGED completed
                   \* the handler raises before its first wait (the handlers of
                   \* lines 752 and 755 are handed msg, not msg.content)
                   \/ /\ run_pc' = "crashed"
                      /\ run_current' = m.id
                      /\ active' = active \cup {m.id}
                      /\ UNCHANGED <<run_todo, completed>>
           ELSE UNCHANGED <<run_pc, run_todo, run_current, dispatched, completed, active>>
    /\ UNCHANGED <<run_port, submitted>>

\* The handler in progress is resumed from a wait that is not on the
\* processor channel, and goes on to its next wait or returns.
HandlerResume ==
    /\ run_pc = "handling"
    /\ Head(run_todo) = "ext"
    /\ run_todo' = Tail(run_todo)
    /\ IF Tail(run_todo) = <<>>
       THEN HandlerReturns
       ELSE UNCHANGED <<run_pc, run_current, completed, active>>
    /\ UNCHANGED <<run_port, run_buffer, submitted, dispatched>>

\* The handler in progress is resumed from such a wait by something it
\* takes for a fault (a failed assert, an exception of a callee): the
\* exception leaves run.
HandlerRaises ==
    /\ run_pc = "handling"
    /\ Head(run_todo) = "ext"
    /\ run_pc' = "crashed"
    /\ UNCHANGED <<run_port, run_buffer, run_todo, run_current, submitted, dispatched,
                   completed, active>>

\* A breakpoint handler takes the next processor message (lines 703-704 /
\* 732-733) and asserts that it is "breakpoint end".
HandlerReceivesProcessorMsg ==
    /\ run_pc = "handling"
    /\ Head(run_todo) = "proc"
    /\ run_buffer # <<>>
    /\ run_buffer' = Tail(run_buffer)
    /\ IF Head(run_buffer).content = "breakpoint end"
       THEN run_todo' = Tail(run_todo) /\ run_pc' = run_pc
       ELSE run_pc' = "crashed" /\ UNCHANGED run_todo
    /\ UNCHANGED <<run_port, run_current, submitted, dispatched, completed, active>>

\* run is at its first _receive_processor_msg and nothing was submitted.
RunInit ==
    /\ run_pc = "recv"
    /\ run_port = <<>>
    /\ run_buffer = <<>>
    /\ run_todo = <<>>
    /\ run_current = 0
    /\ submitted = <<>>
    /\ dispatched = <<>>
    /\ completed = <<>>
    /\ active = {}

(***************************************************************************)
(* The peer handshake of create and receive requests                       *)
(*                                                                         *)
(* Two stacks, 0 and 1, each the peer of the other; node 2 is a further    *)
(* remote node that runs no stack here.  handle_create_request and         *)
(* handle_receive_request are followed up to the point where they enter a  *)
(* per-pair handler; the per-pair handler (modelled in detail above) is    *)
(* one step here, which stands for its allocations, its submissions to the *)
(* EGP and its writes to the result array.  A message a stack sends to     *)
(* its peer is at once in the peer's listener buffer.                      *)
(***************************************************************************)
\* Requests the two stacks handle in one behaviour.
MaxHsRequests == 2
\* EPR sockets opened on one stack in one behaviour.
MaxSockets == 1
\* The numbers of pairs create requests ask for.
PairCounts == {1, 2}

\* The id of a remote node that is not the peer.
OtherNode == 2
\* <<pid, socket_id, remote_id>>: the sockets opened on stack s and the ones
\* its requests name: socket 0 of pid 0 to the peer, and the three that
\* differ from it in one place.
Sockets(s) == {<<0, 0, PeerOf(s)>>, <<1, 0, PeerOf(s)>>, <<0, 1, PeerOf(s)>>,
               <<0, 0, OtherNode>>}

\* args[SER_CREATE_IDX_TYPE]: 0, 1, 2 and a code _construct_request does not
\* know; NoneCode stands for None.
NoneCode == -1
TypeCodes == {0, 1, 2, 3}

\* The contents of peer messages.
Ready == [type |-> "ready", number |-> 0]
NoMsg == [type |-> "none", number |-> 0]

VARIABLES
    hs_sockets,     \* per stack: whether _epr_sockets exists, and the sockets opened
    hs_pc,          \* per stack: "idle" (in run, between requests), "wait_peer" (line
                    \* 459 / 667), the per-pair handler entered, or the exception
                    \* that ended the stack's run
    hs_req,         \* per stack: the request in hand, the link-layer type and number
                    \* its per-pair handler works on, and the peer message received
    hs_inbox,       \* per stack: buffer of the listener of the other stack
    hs_sent,        \* per stack: the messages sent to a peer, with the node sent to
    hs_effects,     \* per stack: the per-pair handlers run: which, for how many
                    \* pairs, for which request, after which peer message
    hs_count        \* per stack: requests handed to handle_*_request so far

hsVars == <<hs_sockets, hs_pc, hs_req, hs_inbox, hs_sent, hs_effects, hs_count>>

NoReq == [kind |-> "none", pid |-> 0, sck |-> 0, rem |-> 0, typ |-> NoneCode,
          type |-> "none", number |-> 0, got |-> NoMsg]

\* open_epr_socket(pid, socket_id, remote_node_id), lines 103-112.  Without
\* the attribute _epr_sockets the call raises in its caller and stores
\* nothing.  The sockets are read only as a request is handed to the stack,
\* so a call made while a request is in hand is taken when the stack is
\* back in run.
open_epr_socket(s, sock) ==
    /\ hs_sockets[s].exists
    /\ hs_pc[s] = "idle"
    /\ Cardinality(hs_sockets[s].socks) < MaxSockets
    /\ hs_sockets' = [hs_sockets EXCEPT ![s].socks = @ \cup {sock}]
    /\ UNCHANGED <<hs_pc, hs_req, hs_inbox, hs_sent, hs_effects, hs_count>>

\* find_epr_socket(pid, sck_id, rem_id), lines 213-228: the socket, None, or
\* AttributeError when there is no _epr_sockets.
find_epr_socket_by_pid(s, pid, sck_id, rem_id) ==
    IF ~hs_sockets[s].exists THEN "AttributeError"
    ELSE IF \E k \in hs_sockets[s].socks : k[1] = pid
    THEN "found" ELSE "None"
find_epr_socket(s, pid, sck_id, rem_id) ==
    IF ~hs_sockets[s].exists THEN "AttributeError"
    ELSE IF \E k \in hs_sockets[s].socks : k[1] = pid /\ k[2] = sck_id /\ k[3] = rem_id
    THEN "found" ELSE "None"

\* _construct_request, lines 167-203: the link-layer request type for a type
\* code, or the exception raised.
construct_request_any_code(typ) ==
    IF typ = NoneCode THEN "AssertionError"
    ELSE IF typ = 0 THEN "ReqCreateAndKeep"
    ELSE IF typ = 1 THEN "ReqMeasureDirectly"
    ELSE "ReqRemoteStatePrep"
construct_request(typ) ==
    IF typ = NoneCode THEN "AssertionError"
    ELSE IF typ = 0 THEN "ReqCreateAndKeep"
    ELSE IF typ = 1 THEN "ReqMeasureDirectly"
    ELSE IF typ = 2 THEN "ReqRemoteStatePrep"
    ELSE "ValueError"

Faults == {"AssertionError", "ValueError", "AttributeError"}

\* _send_peer_msg(peer, Message(content=c)) by stack s to node dest.
HsSendPeer(s, dest, c) ==
    /\ hs_sent' = [hs_sent EXCEPT ![s] = Append(@, [to |-> dest, content |-> c])]
    /\ hs_inbox' = IF dest = PeerOf(s)
                   THEN [hs_inbox EXCEPT ![dest] = Append(@, c)]
                   ELSE hs_inbox

\* handle_create_request from its entry to its wait for the peer (lines
\* 442-459): socket lookup, request construction, send to the peer.
HandleCreateRequest(s) ==
    \E triple \in Sockets(s), typ \in TypeCodes, n \in PairCounts :
        LET pid == triple[1]
            sck == triple[2]
            rem == triple[3]
            sock == find_epr_socket(s, pid, sck, rem)
            type == construct_request(typ)
            \* the argument array is read only once the socket is found
            req == IF sock = "found"
                   THEN [kind |-> "create", pid |-> pid, sck |-> sck, rem |-> rem,
                         typ |-> typ, type |-> type, number |-> n, got |-> NoMsg]
                   ELSE [kind |-> "create", pid |-> pid, sck |-> sck, rem |-> rem,
                         typ |-> NoneCode, type |-> "none", number |-> 0, got |-> NoMsg]
        IN  /\ hs_pc[s] = "idle"
            /\ hs_count[0] + hs_count[1] < MaxHsRequests
            /\ hs_count' = [hs_count EXCEPT ![s] = @ + 1]
            /\ hs_req' = [hs_req EXCEPT ![s] = req]
            /\ IF sock = "AttributeError"
               THEN /\ hs_pc' = [hs_pc EXCEPT ![s] = "AttributeError"]
                    /\ UNCHANGED <<hs_sent, hs_inbox>>
               ELSE IF sock = "None"
               THEN /\ hs_pc' = [hs_pc EXCEPT ![s] = "AssertionError"]
                    /\ UNCHANGED <<hs_sent, hs_inbox>>
               ELSE IF type \in Faults
               THEN /\ hs_pc' = [hs_pc EXCEPT ![s] = type]
                    /\ UNCHANGED <<hs_sent, hs_inbox>>
               ELSE /\ HsSendPeer(s, rem, [type |-> type, number |-> n])
                    /\ hs_pc' = [hs_pc EXCEPT ![s] = "wait_peer"]
            /\ UNCHANGED <<hs_sockets, hs_effects>>

\* handle_receive_request from its entry to its wait for the peer (lines
\* 658-667).
HandleReceiveRequest(s) ==
    \E triple \in Sockets(s) :
        LET pid == triple[1]
            sck == triple[2]
            rem == triple[3]
            sock == find_epr_socket(s, pid, sck, rem)
            req == [kind |-> "receive", pid |-> pid, sck |-> sck, rem |-> rem,
                    typ |-> NoneCode, type |-> "none", number |-> 0, got |-> NoMsg]
        IN  /\ hs_pc[s] = "idle"
            /\ hs_count[0] + hs_count[1] < MaxHsRequests
            /\ hs_count' = [hs_count EXCEPT ![s] = @ + 1]
            /\ hs_req' = [hs_req EXCEPT ![s] = req]
            /\ hs_pc' = [hs_pc EXCEPT ![s] =
                    IF sock = "AttributeError" THEN "AttributeError"
                    ELSE IF sock = "None" THEN "AssertionError"
                    ELSE "wait_peer"]
            /\ UNCHANGED <<hs_sockets, hs_inbox, hs_sent, hs_effects>>

\* handle_create_request resumed by a peer message (lines 459-464): whatever
\* the message is, go on with the handler of the request's type, or return
\* when the type has none.
CreateReceivesPeerMsg(s) ==
    /\ hs_pc[s] = "wait_peer"
    /\ hs_req[s].kind = "create"
    /\ hs_req[s].rem = PeerOf(s)
    /\ hs_inbox[s] # <<>>
    /\ hs_inbox' = [hs_inbox EXCEPT ![s] = Tail(@)]
    /\ hs_req' = [hs_req EXCEPT ![s].got = Head(hs_inbox[s])]
    /\ hs_pc' = [hs_pc EXCEPT ![s] =
            IF hs_req[s].type = "ReqCreateAndKeep" THEN "handle_create_ck_request"
            ELSE IF hs_req[s].type = "ReqMeasureDirectly" THEN "handle_create_md_request"
            ELSE "idle"]
    /\ UNCHANGED <<hs_sockets, hs_sent, hs_effects, hs_count>>

\* handle_receive_request resumed by a peer message (lines 667-685): send
\* "ready", then the receiver-side handler of the type of the message's
\* content, working on that content.
ReceiveReceivesPeerMsgNoReady(s) ==
    LET m == Head(hs_inbox[s])
    IN  /\ hs_pc[s] = "wait_peer"
        /\ hs_req[s].kind = "receive"
        /\ hs_req[s].rem = PeerOf(s)
        /\ hs_inbox[s] # <<>>
        /\ hs_inbox' = [hs_inbox EXCEPT ![s] = Tail(@)]
        /\ hs_req' = [hs_req EXCEPT ![s].got = m, ![s].type = m.type,
                                    ![s].number = m.number]
        /\ hs_pc' = [hs_pc EXCEPT ![s] =
                IF m.type = "ReqCreateAndKeep" THEN "handle_receive_ck_request"
                ELSE IF m.type = "ReqMeasureDirectly" THEN "handle_receive_md_request"
                ELSE "idle"]
        /\ UNCHANGED <<hs_sockets, hs_sent, hs_effects, hs_count>>
ReceiveReceivesPeerMsg(s) ==
    LET m == Head(hs_inbox[s])
        inbox == [hs_inbox EXCEPT ![s] = Tail(@)]
    IN  /\ hs_pc[s] = "wait_peer"
        /\ hs_req[s].kind = "receive"
        /\ hs_req[s].rem = PeerOf(s)
        /\ hs_inbox[s] # <<>>
        /\ hs_sent' = [hs_sent EXCEPT ![s] = Append(@, [to |-> PeerOf(s), content |-> Ready])]
        /\ hs_inbox' = [inbox EXCEPT ![PeerOf(s)] = Append(@, Ready)]
        /\ hs_req' = [hs_req EXCEPT ![s].got = m, ![s].type = m.type,
                                    ![s].number = m.number]
        /\ hs_pc' = [hs_pc EXCEPT ![s] =
                IF m.type = "ReqCreateAndKeep" THEN "handle_receive_ck_request"
                ELSE IF m.type = "ReqMeasureDirectly" THEN "handle_receive_md_request"
                ELSE "idle"]
        /\ UNCHANGED <<hs_sockets, hs_effects, hs_count>>

PairHandlers == {"handle_create_ck_request", "handle_create_md_request",
                 "handle_receive_ck_request", "handle_receive_md_request"}

\* The per-pair handler the stack has entered runs for its request and
\* returns to run.
RunPairHandler(s) ==
    /\ hs_pc[s] \in PairHandlers
    /\ hs_effects' = [hs_effects EXCEPT ![s] =
            Append(@, [handler |-> hs_pc[s], number |-> hs_req[s].number,
                       request |-> hs_count[s], kind |-> hs_req[s].kind,
                       after |-> hs_req[s].got])]
    /\ hs_pc' = [hs_pc EXCEPT ![s] = "idle"]
    /\ UNCHANGED <<hs_sockets, hs_req, hs_inbox, hs_sent, hs_count>>

\* Two stacks in run, nothing sent; _epr_sockets, which Netstack.__init__
\* does not create, either missing or the empty dict its owner has set.
HandshakeInit(existing) ==
    /\ hs_sockets = [s \in Stacks |-> [exists |-> s \in existing, socks |-> {}]]
    /\ hs_pc = [s \in Stacks |-> "idle"]
    /\ hs_req = [s \in Stacks |-> NoReq]
    /\ hs_inbox = [s \in Stacks |-> <<>>]
    /\ hs_sent = [s \in Stacks |-> <<>>]
    /\ hs_effects = [s \in Stacks |-> <<>>]
    /\ hs_count = [s \in Stacks |-> 0]

HandshakeIdle == HandshakeInit({})

(***************************************************************************)
(* ComponentProtocol: a protocol and the PortListeners it owns             *)
(* (common.py, lines 48-76)                                                *)
(***************************************************************************)
VARIABLES
    cp_running,     \* whether the component protocol itself is running
    cp_listeners,   \* _listeners in insertion order: <<name, listener>> pairs
    cp_started,     \* the listeners that are running
    cp_pc,          \* "idle", or "start" / "stop" inside the loop of that method
    cp_next,        \* index in cp_listeners of the listener the loop visits next
    cp_made         \* number of PortListeners constructed so far

cpVars == <<cp_running, cp_listeners, cp_started, cp_pc, cp_next, cp_made>>

\* The names listeners are registered under.
ListenerNames == {"processor", "peer"}

\* PortListeners constructed over the life of one component protocol.
MaxListeners == 3

\* self._listeners.values()
Owned == {cp_listeners[i][2] : i \in DOMAIN cp_listeners}

\* The position of a registered name in the dict.
IndexOf(name) == CHOOSE i \in DOMAIN cp_listeners : cp_listeners[i][1] = name

\* ComponentProtocol.__init__ (lines 49-52): no listeners, nothing started.
ComponentInit ==
    /\ cp_running = FALSE
    /\ cp_listeners = <<>>
    /\ cp_started = {}
    /\ cp_pc = "idle"
    /\ cp_next = 1
    /\ cp_made = 0

\* add_listener (lines 56-57) with a newly constructed PortListener: a dict
\* assignment, which replaces the listener of a name already registered and
\* keeps the name's position. The new listener is not started.
add_listener(name) ==
    /\ cp_pc = "idle"
    /\ cp_made < MaxListeners
    /\ cp_made' = cp_made + 1
    /\ cp_listeners' =
            IF \E i \in DOMAIN cp_listeners : cp_listeners[i][1] = name
            THEN [cp_listeners EXCEPT ![IndexOf(name)] = <<name, cp_made + 1>>]
            ELSE Append(cp_listeners, <<name, cp_made + 1>>)
    /\ UNCHANGED <<cp_running, cp_started, cp_pc, cp_next>>

\* start (lines 67-69): super().start(), then enter the loop over the
\* listeners.
ComponentStart ==
    /\ cp_pc = "idle"
    /\ cp_running' = TRUE
    /\ cp_pc' = IF cp_listeners = <<>> THEN "idle" ELSE "start"
    /\ cp_next' = 1
    /\ UNCHANGED <<cp_listeners, cp_started, cp_made>>

\* One iteration of the loop of start (line 70): listener.start(); the
\* method returns after the last listener.
StartListener ==
    /\ cp_pc = "start"
    /\ cp_started' = cp_started \cup {cp_listeners[cp_next][2]}
    /\ IF cp_next = Len(cp_listeners)
       THEN cp_pc' = "idle" /\ cp_next' = 1
       ELSE cp_pc' = "start" /\ cp_next' = cp_next + 1
    /\ UNCHANGED <<cp_running, cp_listeners, cp_made>>

\* stop (lines 72-73) with super().stop() moved before the loop.
ComponentStopSuperFirst ==
    /\ cp_pc = "idle"
    /\ cp_pc' = "stop"
    /\ cp_next' = 1
    /\ cp_running' = FALSE
    /\ UNCHANGED <<cp_listeners, cp_started, cp_made>>

\* stop (lines 72-73): enter the loop over the listeners.
ComponentStop ==
    /\ cp_pc = "idle"
    /\ cp_pc' = "stop"
    /\ cp_next' = 1
    /\ UNCHANGED <<cp_running, cp_listeners, cp_started, cp_made>>

\* One iteration of the loop of stop (line 74): listener.stop().
StopListener ==
    /\ cp_pc = "stop"
    /\ cp_next <= Len(cp_listeners)
    /\ cp_started' = cp_started \ {cp_listeners[cp_next][2]}
    /\ cp_next' = cp_next + 1
    /\ UNCHANGED <<cp_running, cp_listeners, cp_pc, cp_made>>

\* The end of stop (line 75): super().stop(), after the loop.
SuperStop ==
    /\ cp_pc = "stop"
    /\ cp_next > Len(cp_listeners)
    /\ cp_running' = FALSE
    /\ cp_pc' = "idle"
    /\ cp_next' = 1
    /\ UNCHANGED <<cp_listeners, cp_started, cp_made>>

(***************************************************************************)
(* Specifications                                                          *)
(***************************************************************************)
vars == <<allocVars, lstVars, bpVars, ckVars, runVars, hsVars, strays, cpVars>>

notAlloc == <<lstVars, bpVars, ckVars, runVars, hsVars, strays, cpVars>>
notListener == <<allocVars, bpVars, ckVars, runVars, hsVars, strays, cpVars>>
notBreakpoint == <<allocVars, lstVars, ckVars, runVars, hsVars, strays, cpVars>>
notHandler == <<lstVars, bpVars, runVars, hsVars, strays, cpVars>>
notRun == <<allocVars, lstVars, bpVars, ckVars, hsVars, strays, cpVars>>
notHandshake == <<allocVars, lstVars, bpVars, ckVars, runVars, strays, cpVars>>
notStray == <<allocVars, lstVars, ckVars, runVars, hsVars, cpVars>>
notComponent == <<allocVars, lstVars, bpVars, ckVars, runVars, hsVars, strays>>

\* The allocator as its callers see it: any call, in any order.
InitAllocOnly == InitAlloc /\ ListenerInit /\ BreakpointInit(0) /\ HandlerIdle /\ RunInit /\ ComponentInit /\ HandshakeIdle
NextAlloc ==
    \/ allocate /\ UNCHANGED notAlloc
    \/ allocate_comm /\ UNCHANGED notAlloc
    \/ allocate_mem /\ UNCHANGED notAlloc
    \/ (\E id \in -1 .. MaxQubits : free(id)) /\ UNCHANGED notAlloc
    \/ clear /\ UNCHANGED notAlloc
SpecAlloc == InitAllocOnly /\ [][NextAlloc]_vars

\* One listener, its port and the one caller of _receive_msg on it.
InitListener == MemoryInit(0, FALSE) /\ ListenerInit /\ BreakpointInit(0) /\ HandlerIdle /\ RunInit /\ ComponentInit /\ HandshakeIdle
NextListener ==
    \/ PortArrive /\ UNCHANGED notListener
    \/ ListenerWake /\ UNCHANGED notListener
    \/ ListenerFlush /\ UNCHANGED notListener
    \/ ReceiveMsgCall /\ UNCHANGED notListener
    \/ ReceiveMsgResume /\ UNCHANGED notListener
SpecListener == InitListener /\ [][NextListener]_vars

\* The same under the scheduling of the simulator: a listener suspended on
\* await_port_input is resumed when an input event of its port is pending.
FairListener ==
    /\ WF_vars(ListenerWake /\ UNCHANGED notListener)
    /\ WF_vars(ListenerFlush /\ UNCHANGED notListener)
SpecListenerFair == InitListener /\ [][NextListener]_vars /\ FairListener

\* Two stacks and their processors in breakpoint rendezvous, one node
\* creating and the other receiving.
InitBreakpoint ==
    /\ MemoryInit(0, FALSE) /\ ListenerInit /\ HandlerIdle /\ RunInit /\ ComponentInit /\ HandshakeIdle
    /\ \E c \in Stacks : BreakpointInit(c)
NextBreakpoint ==
    \/ (\E s \in Stacks : RunDispatch(s)) /\ UNCHANGED notBreakpoint
    \/ (\E s \in Stacks : BCRecvStart(s)) /\ UNCHANGED notBreakpoint
    \/ (\E s \in Stacks : BCRecvProc(s)) /\ UNCHANGED notBreakpoint
    \/ (\E s \in Stacks : BCRecvEnd(s)) /\ UNCHANGED notBreakpoint
    \/ (\E s \in Stacks : BRRecvStart(s)) /\ UNCHANGED notBreakpoint
    \/ (\E s \in Stacks : BRRecvProc(s)) /\ UNCHANGED notBreakpoint
    \/ (\E s \in Stacks : BRRecvEnd(s)) /\ UNCHANGED notBreakpoint
    \/ (\E s \in Stacks : PeerListener(s)) /\ UNCHANGED notBreakpoint
    \/ (\E s \in Stacks : ProcListener(s)) /\ UNCHANGED notBreakpoint
    \/ (\E s \in Stacks : ProcSubmit(s)) /\ UNCHANGED notBreakpoint
    \/ (\E s \in Stacks : ProcRead(s)) /\ UNCHANGED notBreakpoint
    \/ (\E s \in Stacks : ProcEnd(s)) /\ UNCHANGED notBreakpoint
SpecBreakpoint == InitBreakpoint /\ [][NextBreakpoint]_vars

\* The same under the scheduling of the simulator: a stack that can take a
\* step takes it, a message on a port reaches its listener, and a processor
\* reads what it is sent, asks for its breakpoints and ends each of them.
FairBreakpoint ==
    \A s \in Stacks :
        /\ WF_vars(StackStep(s) /\ UNCHANGED notBreakpoint)
        /\ WF_vars(PeerListener(s) /\ UNCHANGED notBreakpoint)
        /\ WF_vars(ProcListener(s) /\ UNCHANGED notBreakpoint)
        /\ WF_vars(ProcSubmit(s) /\ UNCHANGED notBreakpoint)
        /\ WF_vars(ProcRead(s) /\ UNCHANGED notBreakpoint)
        /\ WF_vars(ProcEnd(s) /\ UNCHANGED notBreakpoint)
SpecBreakpointFair == InitBreakpoint /\ [][NextBreakpoint]_vars /\ FairBreakpoint

\* The rendezvous with messages that are not of it, or out of turn, arriving
\* on the peer and processor channels.
NextBreakpointFaulty ==
    \/ (\E s \in Stacks : RunDispatch(s)) /\ UNCHANGED notBreakpoint
    \/ (\E s \in Stacks : BCRecvStart(s)) /\ UNCHANGED notBreakpoint
    \/ (\E s \in Stacks : BCRecvProc(s)) /\ UNCHANGED notBreakpoint
    \/ (\E s \in Stacks : BCRecvEnd(s)) /\ UNCHANGED notBreakpoint
    \/ (\E s \in Stacks : BRRecvStart(s)) /\ UNCHANGED notBreakpoint
    \/ (\E s \in Stacks : BRRecvProc(s)) /\ UNCHANGED notBreakpoint
    \/ (\E s \in Stacks : BRRecvEnd(s)) /\ UNCHANGED notBreakpoint
    \/ (\E s \in Stacks : PeerListener(s)) /\ UNCHANGED notBreakpoint
    \/ (\E s \in Stacks : ProcListener(s)) /\ UNCHANGED notBreakpoint
    \/ (\E s \in Stacks : ProcSubmit(s)) /\ UNCHANGED notBreakpoint
    \/ (\E s \in Stacks : ProcRead(s)) /\ UNCHANGED notBreakpoint
    \/ (\E s \in Stacks : ProcEnd(s)) /\ UNCHANGED notBreakpoint
    \/ (\E s \in Stacks : PeerStray(s)) /\ UNCHANGED notStray
    \/ (\E s \in Stacks : ProcStray(s)) /\ UNCHANGED notStray
SpecBreakpointFaulty == InitBreakpoint /\ [][NextBreakpointFaulty]_vars

\* One CK or MD handler on a memory of which the application holds some
\* qubits, with the EGP, the quantum processor and the application around it.
InitHandler ==
    /\ ListenerInit /\ BreakpointInit(0) /\ RunInit /\ ComponentInit /\ HandshakeIdle
    /\ \E cnt \in 1 .. MaxStackQubits, nv \in BOOLEAN :
         \E held \in SUBSET QubitRange(cnt) :
            /\ qubit_count = cnt
            /\ allocated_ids = held
            /\ comm_qubit_ids = (IF nv THEN {0} ELSE QubitRange(cnt))
            /\ allocated_is_dict = FALSE
            /\ last_call = NoCall
            /\ \E kind \in CKKinds \cup MDKinds, n \in 0 .. MaxPairs :
                 \E shared \in (IF kind = "receive_md" THEN BOOLEAN ELSE {TRUE}) :
                    HandlerInit(kind, n, held, shared)
NextHandler ==
    \/ CKBegin /\ UNCHANGED notHandler
    \/ CKRetry /\ UNCHANGED notHandler
    \/ EgpResultCK /\ UNCHANGED notHandler
    \/ ExecDone /\ UNCHANGED notHandler
    \/ MDBegin /\ UNCHANGED notHandler
    \/ EgpResultMD /\ UNCHANGED notHandler
    \/ AppFree /\ UNCHANGED notHandler
SpecHandler == InitHandler /\ [][NextHandler]_vars

\* The dispatch loop of one stack, its processor submitting at any time.
InitRun ==
    /\ MemoryInit(0, FALSE) /\ ListenerInit /\ BreakpointInit(0) /\ HandlerIdle
    /\ RunInit /\ ComponentInit /\ HandshakeIdle
NextRun ==
    \/ ProcessorSubmit /\ UNCHANGED notRun
    \/ RunListener /\ UNCHANGED notRun
    \/ RunDispatchNext /\ UNCHANGED notRun
    \/ HandlerResume /\ UNCHANGED notRun
    \/ HandlerRaises /\ UNCHANGED notRun
    \/ HandlerReceivesProcessorMsg /\ UNCHANGED notRun
SpecRun == InitRun /\ [][NextRun]_vars

\* Two stacks handling create and receive requests towards each other and
\* towards a third node, with sockets opened at any time.
InitHandshake ==
    /\ MemoryInit(0, FALSE) /\ ListenerInit /\ BreakpointInit(0) /\ HandlerIdle /\ RunInit /\ ComponentInit
    /\ \E existing \in SUBSET Stacks : HandshakeInit(existing)
NextHandshake ==
    \/ (\E s \in Stacks : \E sock \in Sockets(s) : open_epr_socket(s, sock))
            /\ UNCHANGED notHandshake
    \/ (\E s \in Stacks : HandleCreateRequest(s)) /\ UNCHANGED notHandshake
    \/ (\E s \in Stacks : HandleReceiveRequest(s)) /\ UNCHANGED notHandshake
    \/ (\E s \in Stacks : CreateReceivesPeerMsg(s)) /\ UNCHANGED notHandshake
    \/ (\E s \in Stacks : ReceiveReceivesPeerMsg(s)) /\ UNCHANGED notHandshake
    \/ (\E s \in Stacks : RunPairHandler(s)) /\ UNCHANGED notHandshake
SpecHandshake == InitHandshake /\ [][NextHandshake]_vars

\* A component protocol that is given listeners, started and stopped in any
\* order.
InitComponent ==
    /\ MemoryInit(0, FALSE) /\ ListenerInit /\ BreakpointInit(0) /\ HandlerIdle
    /\ RunInit /\ HandshakeIdle /\ ComponentInit
NextComponent ==
    \/ (\E name \in ListenerNames : add_listener(name)) /\ UNCHANGED notComponent
    \/ ComponentStart /\ UNCHANGED notComponent
    \/ StartListener /\ UNCHANGED notComponent
    \/ ComponentStop /\ UNCHANGED notComponent
    \/ StopListener /\ UNCHANGED notComponent
    \/ SuperStop /\ UNCHANGED notComponent
SpecComponent == InitComponent /\ [][NextComponent]_vars

(***************************************************************************)
(* Properties of PhysicalQuantumMemory (checked under SpecAlloc)           *)
(***************************************************************************)
AllocOps == {"allocate", "allocate_comm", "allocate_mem"}

\* The ids op may hand out, given the allocated set pre.
Eligible(op, pre) ==
    {i \in QubitRange(qubit_count) :
        /\ i \notin pre
        /\ (op = "allocate_comm" => i \in comm_qubit_ids)
        /\ (op = "allocate_mem" => i \notin comm_qubit_ids)}

\* C1: whatever the capacity and the calls made so far, an id returned by
\* allocate(), allocate_comm() or allocate_mem() was not allocated when the
\* call was made and lies in 0..qubit_count-1, and never more than
\* qubit_count ids are allocated.
C1_NoDoubleAllocation ==
    /\ (last_call.op \in AllocOps /\ last_call.exc = NoExc) =>
            /\ last_call.res \notin last_call.pre
            /\ last_call.res \in QubitRange(qubit_count)
            /\ allocated_ids = last_call.pre \cup {last_call.res}
    /\ allocated_ids \subseteq QubitRange(qubit_count)
    /\ Cardinality(allocated_ids) <= qubit_count

\* An allocate_comm() that succeeds on a pool in which other ids are held.
C1_Witness ==
    /\ last_call.op = "allocate_comm"
    /\ last_call.exc = NoExc
    /\ last_call.pre # {}
    /\ Cardinality(allocated_ids) = qubit_count

\* C2: a successful allocate* call returns the smallest id eligible for it
\* (free; for allocate_comm in the communication subset; for allocate_mem
\* in the memory subset).  An id given back by free(id) is eligible again.
C2_LowestEligibleId ==
    /\ (last_call.op \in AllocOps /\ last_call.exc = NoExc) =>
            /\ last_call.res \in Eligible(last_call.op, last_call.pre)
            /\ \A i \in Eligible(last_call.op, last_call.pre) : last_call.res <= i
    /\ (last_call.op = "free" /\ last_call.exc = NoExc) =>
            /\ allocated_ids = last_call.pre \ {last_call.arg}
            /\ last_call.arg \in Eligible("allocate", allocated_ids)

\* An allocate() that returns an id that is not the lowest of the pool,
\* because every lower id is held: the id was freed and is handed out again.
C2_Witness ==
    /\ last_call.op = "allocate"
    /\ last_call.exc = NoExc
    /\ last_call.res = 1
    /\ 2 \in last_call.pre

\* C3: an allocate* call raises AllocError exactly when no id is eligible
\* for it, and a call that raises leaves the allocated set as it was.
C3_AllocErrorIffExhausted ==
    last_call.op \in AllocOps =>
        /\ (last_call.exc = AllocError) <=> (Eligible(last_call.op, last_call.pre) = {})
        /\ last_call.exc = AllocError => allocated_ids = last_call.pre

\* allocate_mem() raising on a pool that still has a free communication id.
C3_Witness ==
    /\ last_call.op = "allocate_mem"
    /\ last_call.exc = AllocError
    /\ \E i \in QubitRange(qubit_count) : i \notin allocated_ids
    /\ allocated_ids # {}

\* C19: free(id) on an id that is not allocated (never allocated, freed
\* before, or outside 0..qubit_count-1) raises and leaves the allocated set
\* as it was; free(id) on an allocated id removes that id and no other.
C19_FreeOfUnallocatedRaises ==
    last_call.op = "free" =>
        /\ last_call.arg \notin last_call.pre =>
                /\ last_call.exc \in {KeyError, AttributeError}
                /\ allocated_ids = last_call.pre
        /\ last_call.arg \in last_call.pre =>
                /\ last_call.exc = NoExc
                /\ allocated_ids = last_call.pre \ {last_call.arg}
                /\ allocated_ids \cup {last_call.arg} = last_call.pre

\* free of an id of the pool that is not held, while other ids are held.
C19_Witness ==
    /\ last_call.op = "free"
    /\ last_call.exc = KeyError
    /\ last_call.arg \in QubitRange(qubit_count)
    /\ last_call.pre # {}
    /\ allocated_ids = last_call.pre

\* The memory subset of the pool: the ids allocate_mem() scans for.
MemQubitIds == {i \in QubitRange(qubit_count) : i \notin comm_qubit_ids}

\* C20: the communication subset and the memory subset are disjoint and
\* their union is 0..qubit_count-1; allocate_comm() returns only ids of the
\* communication subset and allocate_mem() only ids of the memory subset;
\* when the communication subset is the single slot 0 (the NV variant) at
\* most one communication slot is allocated and allocate_comm() succeeds
\* only when slot 0 is free.
C20_Returns ==
    /\ (last_call.op = "allocate_comm" /\ last_call.exc = NoExc) =>
            last_call.res \in comm_qubit_ids
    /\ (last_call.op = "allocate_mem" /\ last_call.exc = NoExc) =>
            last_call.res \in MemQubitIds
    /\ comm_qubit_ids = {0} =>
            /\ Cardinality(allocated_ids \cap comm_qubit_ids) <= 1
            /\ (last_call.op = "allocate_comm" /\ last_call.exc = NoExc) =>
                    0 \notin last_call.pre
C20_CommMemPartition ==
    /\ comm_qubit_ids \cap MemQubitIds = {}
    /\ comm_qubit_ids \cup MemQubitIds = QubitRange(qubit_count)
    /\ C20_Returns

\* The same for the pools that have at least one slot.
C20_PartitionOfNonEmptyPool == qubit_count >= 1 => C20_CommMemPartition

(***************************************************************************)
(* Properties of PortListener and _receive_msg (checked under SpecListener)*)
(***************************************************************************)
IsPrefix(s, t) == Len(s) <= Len(t) /\ SubSeq(t, 1, Len(s)) = s

\* C8: a wake event that finds K >= 1 inputs pending appends the messages of
\* all K to the buffer, in arrival order, behind what the buffer holds, and
\* the episode sends the wake signal once: one signal per episode, sent when
\* the episode ends, not one per message.
C8_WakeStep ==
    episodes' = episodes + 1 =>
        /\ Len(port_inputs) >= 1
        /\ buffer' = buffer \o Items(port_inputs)
        /\ port_inputs' = <<>>
        /\ episode_k' = Len(port_inputs)
C8_SignalCount ==
    sig_count = episodes - (IF listener_pc = "flush" THEN 1 ELSE 0)
C8_OneSignalPerEpisode == [][C8_WakeStep]_vars /\ []C8_SignalCount

\* An episode of three inputs that has ended, after an earlier episode.
C8_Witness ==
    /\ episode_k >= 3
    /\ episodes >= 2
    /\ listener_pc = "await_input"
    /\ sig_count = episodes

\* C9: the messages _receive_msg returns are, in order, a prefix of the
\* messages that arrived: none dropped, none twice, none out of order (what
\* arrived and was not returned yet waits, in order, in the buffer and the
\* port); and a call suspends only on an empty buffer.
C9_Conservation == returned \o buffer \o Items(port_inputs) = arrived
C9_SuspendStep ==
    /\ (recv_pc = "idle" /\ recv_pc' = "await_signal") => Len(buffer) = 0
    /\ (recv_pc = "idle" /\ Len(buffer) > 0 /\ recv_pc' # recv_pc) => FALSE
    /\ returned' # returned => returned' = Append(returned, Head(buffer))
C9_ReceiveInArrivalOrder ==
    /\ [](IsPrefix(returned, arrived) /\ C9_Conservation)
    /\ [][C9_SuspendStep]_vars

\* Every message was returned, the last one by a call that had suspended,
\* and a burst was buffered in one episode.
C9_Witness ==
    /\ Len(arrived) = MaxMsgs
    /\ returned = arrived
    /\ episodes < Len(arrived)
    /\ recv_pc = "idle"

\* C31 (under SpecListenerFair): every message that arrives on the port is
\* moved to the buffer, and the episode that moved it ends with the wake
\* signal, with no further arrival needed.  At every moment the input events
\* still pending are as many as the listener will yield on before it has
\* read every input of the port: one per unread input, and while it flushes
\* one per extra input of the episode; so it never waits for new input, at
\* line 27 or at line 40, with an input unread on the port or a flush
\* unfinished and no event left to resume it.
C31_State ==
    /\ port_events = Len(port_inputs) + (IF listener_pc = "flush" THEN counter - 1 ELSE 0)
    /\ listener_pc = "flush" => counter >= 2
    /\ ~(port_events = 0 /\ (port_inputs # <<>> \/ listener_pc = "flush"))
C31_Buffered(n) ==
    /\ Len(returned) + Len(buffer) >= n
    /\ listener_pc = "await_input"
    /\ sig_count = episodes
C31_EveryArrivalIsBuffered ==
    /\ []C31_State
    /\ \A n \in 1 .. MaxMsgs : (Len(arrived) >= n) ~> C31_Buffered(n)

\* A message that arrived while the listener was flushing the extra events
\* of an episode of two inputs has been buffered by the next episode.
C31_Witness ==
    /\ episodes = 2
    /\ episode_k = 1
    /\ Len(arrived) >= 3
    /\ sig_count = 2
    /\ port_inputs = <<>>
    /\ listener_pc = "await_input"
    /\ Len(returned) + Len(buffer) = Len(arrived)

(***************************************************************************)
(* Properties of the breakpoint rendezvous                                 *)
(***************************************************************************)
\* The places where a breakpoint handler waits for a peer message.
PeerWaits == {"bc_recv_start", "bc_recv_end", "br_recv_start", "br_recv_end"}
\* Stack s waits for a peer message and none is on its way.
BlockedOnPeer(s) ==
    /\ bp_pc[s] \in PeerWaits
    /\ peer_buffer[s] = <<>>
    /\ peer_port[s] = <<>>

\* C6 (under SpecBreakpointFair): with one stack in the creator handler and
\* its peer in the receiver handler, messages delivered and each processor
\* ending its breakpoint, a stack that has left the dispatch loop for a
\* breakpoint handler returns to it, every rendezvous asked for is finished,
\* and in no reachable state do both stacks wait for a message of the other
\* with none on its way.
C6_NoMutualWait == ~(\A s \in Stacks : BlockedOnPeer(s))
C6_RendezvousTerminates ==
    /\ []C6_NoMutualWait
    /\ \A s \in Stacks : (bp_pc[s] # "run") ~> (bp_pc[s] = "run")
    /\ <>[](\A s \in Stacks : bp_pc[s] = "run" /\ rounds[s] = MaxRounds)

\* Both handlers have returned to the dispatch loop after the last rendezvous.
C6_Witness ==
    \A s \in Stacks :
        /\ bp_pc[s] = "run"
        /\ rounds[s] = MaxRounds
        /\ proc_buffer[s] = <<>> /\ peer_buffer[s] = <<>>

\* The breakpoint requests the processor of node s has submitted.
Submitted(s) == rounds[s] + (IF proc_pc[s] = "idle" THEN 0 ELSE 1)

\* C7: a stack sends its processor, for each rendezvous, "breakpoint ready"
\* once and then "breakpoint finished" once, and nothing else: what it has
\* sent alternates ready, finished; it holds one pair per rendezvous handled,
\* and the ready alone while the handler is between the two.
C7_ReadyThenFinishedOnce ==
    \A s \in Stacks :
        /\ \A i \in 1 .. Len(to_proc[s]) :
              to_proc[s][i] = IF i % 2 = 1 THEN "breakpoint ready"
                              ELSE "breakpoint finished"
        /\ Len(to_proc[s]) <= 2 * Submitted(s)
        /\ bp_pc[s] \in {"run", "bc_recv_start", "br_recv_start"}
              => Len(to_proc[s]) % 2 = 0
        /\ bp_pc[s] \in {"bc_recv_proc", "bc_recv_end", "br_recv_proc", "br_recv_end"}
              => Len(to_proc[s]) % 2 = 1
        /\ bp_pc[s] # "AssertionError"

\* Both stacks have been through a whole rendezvous and are in the next.
C7_Witness ==
    /\ \A s \in Stacks : Len(to_proc[s]) >= 3
    /\ \E s \in Stacks : Len(to_proc[s]) = 2 * MaxRounds

\* How often c occurs in seq.
Count(seq, c) == Len(SelectSeq(seq, LAMBDA x : x = c))
\* What stack s has taken from its peer with _receive_peer_msg: what the peer
\* has sent, less what is still on the port or in the listener's buffer.
PeerReceived(s) ==
    SubSeq(peer_sent[PeerOf(s)], 1,
           Len(peer_sent[PeerOf(s)]) - Len(peer_port[s]) - Len(peer_buffer[s]))
\* How many "breakpoint end" the processor of node s has sent to its stack.
ProcEnds(s) == rounds[s] + (IF proc_pc[s] = "wait_finished" THEN 1 ELSE 0)
\* How many of them the stack has taken with _receive_processor_msg.
ProcEndsTaken(s) ==
    ProcEnds(s) - Count(proc_port[s], "breakpoint end")
                - Count(proc_buffer[s], "breakpoint end")

\* C28: a stack, creator or receiver, tells its processor "breakpoint ready"
\* only when it has sent its own "breakpoint start" to the peer and has
\* received the peer's "breakpoint start" (for each rendezvous: the k-th
\* ready after the k-th start of either side).
C28_ReadyAfterBothStarts ==
    \A s \in Stacks :
        /\ Count(to_proc[s], "breakpoint ready") <= Count(peer_sent[s], "breakpoint start")
        /\ Count(to_proc[s], "breakpoint ready")
              <= Count(PeerReceived(s), "breakpoint start")

\* Both processors have been told "breakpoint ready" of the second
\* rendezvous.
C28_Witness ==
    \A s \in Stacks :
        /\ Count(to_proc[s], "breakpoint ready") = 2
        /\ Count(PeerReceived(s), "breakpoint start") = 2

\* C29: the creator sends first.  The receiver sends its "breakpoint start"
\* only after it has received the creator's, and its "breakpoint end" only
\* after its own processor has signalled "breakpoint end" and it has
\* received the creator's "breakpoint end"; the creator sends its
\* "breakpoint end" in the step in which it takes the "breakpoint end" of
\* its own processor, whatever the receiver has done.
C29_State ==
    LET c == bp_creator
        r == PeerOf(bp_creator)
    IN  /\ Count(peer_sent[r], "breakpoint start")
              <= Count(PeerReceived(r), "breakpoint start")
        /\ Count(peer_sent[r], "breakpoint end") <= ProcEndsTaken(r)
        /\ Count(peer_sent[r], "breakpoint end")
              <= Count(PeerReceived(r), "breakpoint end")
        /\ Count(peer_sent[c], "breakpoint end") = ProcEndsTaken(c)
        /\ Count(peer_sent[c], "breakpoint start") >= Count(peer_sent[r], "breakpoint start")
        /\ Count(peer_sent[c], "breakpoint end") >= Count(peer_sent[r], "breakpoint end")
C29_Step ==
    LET c == bp_creator
    IN  (bp_pc[c] = "bc_recv_proc" /\ bp_pc'[c] # "bc_recv_proc") =>
            /\ ProcMsg(c) = "breakpoint end"
            /\ peer_sent'[c] = Append(peer_sent[c], "breakpoint end")
C29_CreatorSendsFirst == []C29_State /\ [][C29_Step]_vars

\* The creator has sent its "breakpoint end" while the processor of the
\* receiver is still in its breakpoint and the receiver has sent only its
\* "breakpoint start".
C29_Witness ==
    LET c == bp_creator
        r == PeerOf(bp_creator)
    IN  /\ peer_sent[c] = <<"breakpoint start", "breakpoint end">>
        /\ peer_sent[r] = <<"breakpoint start">>
        /\ proc_pc[r] = "in_breakpoint"
        /\ bp_pc[c] = "bc_recv_end"

\* C30: a stack has told its processor "breakpoint finished" only when both
\* processors, its own and the peer's, have sent "breakpoint end" to their
\* stacks (for each rendezvous: the k-th finished after the k-th end of
\* either processor).
C30_FinishedAfterBothEnds ==
    \A s \in Stacks :
        /\ Count(to_proc[s], "breakpoint finished") <= ProcEnds(s)
        /\ Count(to_proc[s], "breakpoint finished") <= ProcEnds(PeerOf(s))

\* One stack has told its processor "breakpoint finished" and the other has
\* not yet.
C30_Witness ==
    \E s \in Stacks :
        /\ to_proc[s] = <<"breakpoint ready", "breakpoint finished">>
        /\ to_proc[PeerOf(s)] = <<"breakpoint ready">>
        /\ ProcEnds(s) = 1 /\ ProcEnds(PeerOf(s)) = 1

(***************************************************************************)
(* Faults of the breakpoint rendezvous (checked under SpecBreakpointFaulty)*)
(***************************************************************************)
\* The content a breakpoint handler expects at each of its waits.
PeerWaitPcs == {"bc_recv_start", "bc_recv_end", "br_recv_start", "br_recv_end"}
ProcWaitPcs == {"bc_recv_proc", "br_recv_proc"}
ExpectedPeerContent(pc) ==
    IF pc \in {"bc_recv_start", "br_recv_start"} THEN "breakpoint start"
    ELSE "breakpoint end"

\* Stack s ends its request in this step with a fault and sends nothing.
AbortsSilently(s) ==
    /\ bp_pc'[s] = "AssertionError"
    /\ to_proc'[s] = to_proc[s]
    /\ peer_sent'[s] = peer_sent[s]

\* C16: at each wait of a breakpoint handler, a message whose content is not
\* the expected one ("breakpoint start" or "breakpoint end" from the peer,
\* "breakpoint end" from the processor) ends the handler with a fault there,
\* and the stack sends no further message to the peer or the processor, no
\* "breakpoint finished" in particular.
C16_Step ==
    \A s \in Stacks :
        /\ (bp_pc[s] \in PeerWaitPcs /\ peer_buffer[s] # <<>>
                /\ peer_buffer'[s] = Tail(peer_buffer[s])
                /\ Head(peer_buffer[s]) # ExpectedPeerContent(bp_pc[s])) =>
              AbortsSilently(s)
        /\ (bp_pc[s] \in ProcWaitPcs /\ proc_buffer[s] # <<>>
                /\ proc_buffer'[s] = Tail(proc_buffer[s])
                /\ Head(proc_buffer[s]) # "breakpoint end") =>
              AbortsSilently(s)
        /\ bp_pc[s] = "AssertionError" => AbortsSilently(s)
C16_UnexpectedContentIsFatal == [][C16_Step]_vars

\* A stack that told its processor "breakpoint ready", then took a message
\* it did not expect, and has sent nothing since.
C16_Witness ==
    \E s \in Stacks :
        /\ bp_pc[s] = "AssertionError"
        /\ to_proc[s] = <<"breakpoint ready">>
        /\ peer_sent[s] = <<"breakpoint start", "breakpoint end">>
        /\ proc_pc[s] = "wait_finished"

(***************************************************************************)
(* Properties of the CK and MD handlers (checked under SpecHandler)        *)
(***************************************************************************)
\* The communication ids that are free in the allocated set alloc.
FreeComm(alloc) ==
    {i \in QubitRange(qubit_count) : i \in comm_qubit_ids /\ i \notin alloc}

\* C4: a CK handler (initiator or receiver) never ends in AllocError and
\* never puts a request to the EGP without holding a communication slot for
\* it.  While no free has been issued it gets as far as the communication
\* slots that were free when it started: with C of them and N > C pairs asked
\* for it completes pairs 0..C-1 and suspends at the allocation of pair C,
\* the pool exhausted and nothing outstanding at the EGP.  It leaves that
\* suspension only by a SIGNAL_MEMORY_FREED, and the retry either finds a
\* free communication slot and puts the request for the pair, or finds the
\* pool still exhausted and suspends again.
C4_State ==
    ck_kind \in CKKinds =>
        /\ ck_pc \notin {AllocError, KeyError}
        /\ \A k \in 1 .. Len(egp_puts) :
              /\ egp_puts[k].number = 1
              /\ egp_puts[k].pair = k - 1
              /\ egp_puts[k].holding \in QubitRange(qubit_count) \cap comm_qubit_ids
        /\ ck_pc = "wait_egp" =>
              /\ phys_id \in allocated_ids \cap comm_qubit_ids
              /\ egp_puts[Len(egp_puts)].holding = phys_id
        /\ mem_signals = 0 => pair_index <= Cardinality(FreeComm(alloc0))
        /\ ck_pc = "wait_mem" =>
              /\ egp_pending = 0
              /\ Len(egp_puts) = pair_index
              /\ Len(notify_at) = pair_index
              /\ mem_signals = 0 =>
                    /\ FreeComm(allocated_ids) = {}
                    /\ pair_index = Cardinality(FreeComm(alloc0))
C4_Step ==
    ck_kind \in CKKinds =>
        /\ (ck_pc = "wait_mem" /\ ck_pc' # "wait_mem") =>
              /\ ck_pc' = "retry"
              /\ mem_signals' = mem_signals + 1
              /\ egp_puts' = egp_puts
        /\ (ck_pc = "retry" /\ ck_pc' # "retry") =>
              IF FreeComm(allocated_ids) = {}
              THEN ck_pc' = "wait_mem" /\ egp_puts' = egp_puts
                   /\ allocated_ids' = allocated_ids
              ELSE /\ ck_pc' = "wait_egp"
                   /\ phys_id' \in FreeComm(allocated_ids)
                   /\ Len(egp_puts') = Len(egp_puts) + 1
        /\ Len(egp_puts') > Len(egp_puts) =>
              /\ phys_id' \in allocated_ids' \ allocated_ids
              /\ egp_pending' = 1
C4_CKWaitsForMemoryFreed == []C4_State /\ [][C4_Step]_vars

\* A CK request for more pairs than there were free communication slots has
\* completed, after a signal that found the pool still exhausted.
C4_Witness ==
    /\ ck_kind \in CKKinds
    /\ ck_pc = "done"
    /\ num_pairs > Cardinality(FreeComm(alloc0))
    /\ Cardinality(FreeComm(alloc0)) >= 1
    /\ mem_waits >= 2
    /\ mem_signals >= 2

\* C5: in each of the four handlers that acquire a communication slot, an
\* AllocError of allocate_comm() is taken by the wait-for-memory-freed loop
\* and never leaves the handler.
C5_AllocErrorNeverSurfaces == ck_pc # AllocError

\* The correction fixed for each Bell index: none for B00, X for B01, Z for
\* B10, X then Z for B11.
FixedCorrection(b) ==
    IF b = 0 THEN <<>>
    ELSE IF b = 1 THEN <<"ROT_X">>
    ELSE IF b = 2 THEN <<"ROT_Z">>
    ELSE <<"ROT_X", "ROT_Z">>

\* The Bell index of a pair in state b after a rotation by pi on one of its
\* qubits: X exchanges B00 with B01 and B10 with B11, Z exchanges B00 with
\* B10 and B01 with B11 (up to a global phase).
RotPi(instr, b) ==
    IF instr = "ROT_X"
    THEN (IF b % 2 = 0 THEN b + 1 ELSE b - 1)
    ELSE (IF b < 2 THEN b + 2 ELSE b - 2)

RECURSIVE ApplyInstrs(_, _)
ApplyInstrs(instrs, b) ==
    IF instrs = <<>> THEN b
    ELSE ApplyInstrs(Tail(instrs), RotPi(Head(instrs), b))

\* The correction programs executed for pair p.
ProgramsOfPair(p) == SelectSeq(programs, LAMBDA r : r.pair = p)

\* C13: for each Bell index the EGP reports for a pair, the initiator-side
\* CK handler executes the correction fixed for that index (no program for
\* B00, X for B01, Z for B10, X then Z for B11), which takes that index to
\* B00; the receiver-side CK handler executes no program at all.
C13_CorrectionOnInitiatorOnly ==
    /\ ck_kind = "receive_ck" => programs = <<>>
    /\ ck_kind = "create_ck" =>
          /\ Len(programs) <= Len(egp_results)
          /\ \A p \in 0 .. Len(egp_results) - 1 :
                LET b == egp_results[p + 1].res
                    ps == ProgramsOfPair(p)
                IN  /\ b = 0 => ps = <<>>
                    /\ b # 0 => /\ Len(ps) = 1
                                /\ ps[1].instrs = FixedCorrection(b)
                                /\ ApplyInstrs(ps[1].instrs, b) = 0

\* An initiator that has finished two pairs, reported as B11 and as B00.
C13_Witness ==
    /\ ck_kind = "create_ck"
    /\ ck_pc = "done"
    /\ num_pairs = 2
    /\ egp_results[1].res = 3
    /\ egp_results[2].res = 0
    /\ Len(programs) = 1
    /\ programs[1].instrs = <<"ROT_X", "ROT_Z">>

\* The simulated time at which a CK handler reaches the slice of pair i: the
\* time of the pair's result, and for the initiator the gates of its
\* correction.
SliceTime(i) ==
    egp_results[i + 1].at
        + (IF ck_kind = "create_ck"
           THEN GateNs * Len(FixedCorrection(egp_results[i + 1].res)) ELSE 0)

\* C14: after a CK request for N pairs has completed, initiator or receiver,
\* the result array holds N slices: for every pair i the elements
\* slice_len*i .. slice_len*(i+1)-1 hold the elapsed time (whole microseconds
\* since the handler started) in the goodness field, the Bell index reported
\* for pair i in the Bell-state field and -1 elsewhere, and no element at
\* slice_len*N or beyond was written.
C14_ResultSlicesOfCK ==
    (ck_kind \in CKKinds /\ ck_pc = "done") =>
        /\ Len(egp_results) = num_pairs
        /\ Len(array_writes) = 10 * num_pairs
        /\ \A k \in 1 .. Len(array_writes) : array_writes[k][1] < 10 * num_pairs
        /\ \A i \in 0 .. num_pairs - 1 : \A f \in 0 .. 9 :
              array_writes[10 * i + f + 1] =
                  <<10 * i + f,
                    IF f = 7 THEN (SliceTime(i) - start_time) \div 1000
                    ELSE IF f = 9 THEN egp_results[i + 1].res
                    ELSE -1>>

\* A receiver that has completed two pairs reported with different indices.
C14_Witness ==
    /\ ck_kind = "receive_ck"
    /\ ck_pc = "done"
    /\ num_pairs = 2
    /\ egp_results[1].res = 2
    /\ egp_results[2].res = 1
    /\ Len(array_writes) = 20
    /\ array_writes[8][2] < array_writes[18][2]

\* C15: an MD handler, initiator or receiver, writes no element of the
\* result array before the result of the N-th pair has been received, and
\* then writes all N slices in pair order.
C15_State ==
    (ck_kind \in MDKinds /\ array_writes # <<>>) =>
        /\ Len(egp_results) = num_pairs
        /\ Len(array_writes) = 10 * num_pairs
        /\ \A i \in 0 .. num_pairs - 1 : \A f \in 0 .. 9 :
              array_writes[10 * i + f + 1] =
                  <<10 * i + f,
                    IF f = 2 THEN egp_results[i + 1].res.measurement_outcome
                    ELSE IF f = 3 THEN egp_results[i + 1].res.measurement_basis
                    ELSE IF f = 9 THEN egp_results[i + 1].res.bell_state
                    ELSE -1>>
C15_Step ==
    (ck_kind \in MDKinds /\ array_writes' # array_writes) =>
        /\ array_writes = <<>>
        /\ Len(egp_results') = num_pairs
        /\ ck_pc' = "done"
C15_MDWritesAfterLastPair == []C15_State /\ [][C15_Step]_vars

\* An MD handler that has received both results of a two-pair request, which
\* differ, and has written.
C15_Witness ==
    /\ ck_kind \in MDKinds
    /\ ck_pc = "done"
    /\ num_pairs = 2
    /\ egp_results[1].res # egp_results[2].res
    /\ Len(array_writes) = 20

\* The slot allocate_comm() returned for pair i of a CK request.
SlotOfPair(i) == egp_puts[i + 1].holding

\* C21: each correction program of the initiator-side CK handler acts on the
\* physical slot that allocate_comm() returned for its pair, the slot then
\* mapped to the pair's virtual id, whatever is allocated already.
C21_CorrectionOnAllocatedSlot ==
    ck_kind = "create_ck" =>
        \A k \in 1 .. Len(programs) :
            programs[k].qubit_indices = <<SlotOfPair(programs[k].pair)>>

\* C22: a CK handler, initiator or receiver, puts a request for N pairs to
\* the EGP as N requests of one pair each, never as one request: the request
\* for a pair is put only when the result of the pair before it has been
\* received, so that at most one result is outstanding, and right after an
\* allocate_comm() that returned a slot for that pair.
C22_State ==
    ck_kind \in CKKinds =>
        /\ Len(egp_puts) <= num_pairs
        /\ ck_pc = "done" => Len(egp_puts) = num_pairs
        /\ \A k \in 1 .. Len(egp_puts) :
              /\ egp_puts[k].number = 1
              /\ egp_puts[k].pair = k - 1
        /\ egp_pending \in {0, 1}
        /\ Len(egp_puts) = Len(egp_results) + egp_pending
C22_Step ==
    (ck_kind \in CKKinds /\ egp_puts' # egp_puts) =>
        /\ Len(egp_puts') = Len(egp_puts) + 1
        /\ Len(egp_results') = Len(egp_puts)
        /\ last_call'.op = "allocate_comm"
        /\ last_call'.exc = NoExc
        /\ last_call'.res = egp_puts'[Len(egp_puts')].holding
        /\ last_call'.res \in allocated_ids' \ allocated_ids
C22_CKPutsOnePairAtATime == []C22_State /\ [][C22_Step]_vars

\* A CK request for two pairs has completed on a memory with one
\* communication slot: two requests were put, the second after a free.
C22_Witness ==
    /\ ck_kind \in CKKinds
    /\ ck_pc = "done"
    /\ num_pairs = 2
    /\ Len(egp_puts) = 2
    /\ SlotOfPair(0) = SlotOfPair(1)
    /\ mem_waits >= 1

\* C23: an MD handler, initiator or receiver, puts its request to the EGP
\* exactly once, as one request for all N pairs, before it allocates any
\* communication slot and before it awaits any result; it then awaits one
\* result per pair, never more than N, and returns after the N-th.
C23_State ==
    ck_kind \in MDKinds =>
        /\ ck_pc = "start" => egp_puts = <<>> /\ egp_results = <<>>
        /\ ck_pc # "start" =>
              /\ Len(egp_puts) = 1
              /\ egp_puts[1].number = num_pairs
              /\ Len(egp_results) + egp_pending = num_pairs
        /\ Len(egp_results) <= num_pairs
        /\ ck_pc = "done" => Len(egp_results) = num_pairs
        /\ ck_pc = "wait_egp" => Len(egp_results) < num_pairs
C23_Step ==
    (ck_kind \in MDKinds /\ egp_puts' # egp_puts) =>
        /\ egp_puts = <<>>
        /\ phys_id = NoId
        /\ qdev_allocated = {}
        /\ egp_results = <<>>
        /\ egp_results' = <<>>
C23_MDPutsWholeRequestOnce == []C23_State /\ [][C23_Step]_vars

\* An MD request for two pairs has returned: one request was put, for two
\* pairs, and two results were awaited.
C23_Witness ==
    /\ ck_kind \in MDKinds
    /\ ck_pc = "done"
    /\ num_pairs = 2
    /\ Len(egp_puts) = 1
    /\ egp_puts[1].number = 2
    /\ Len(egp_results) = 2

\* C24: an MD handler, initiator or receiver, sends the processor no "wrote
\* to array" message before the N-th result, and after all N slices are
\* written one message per pair: N messages for a request for N pairs.
C24_MDNotifiesOncePerPair ==
    ck_kind \in MDKinds =>
        /\ Len(egp_results) < num_pairs => notify_at = <<>>
        /\ ck_pc = "done" =>
              /\ Len(notify_at) = num_pairs
              /\ \A k \in 1 .. Len(notify_at) :
                    notify_at[k] = SER_RESPONSE_MEASURE_LEN * num_pairs

\* The slot an MD handler holds: the one it allocated for the pair whose
\* result it awaits.
MDHolds == IF ck_pc = "wait_egp" THEN {phys_id} ELSE {}

\* C25: an MD handler, initiator or receiver, takes the communication slot
\* of a pair from the stack's pool before it awaits the pair's result and
\* returns that slot to that pool right after the result: the slot it holds
\* while it awaits a result is allocated in the pool, every other allocated
\* slot of the pool was allocated when the handler started, the free of the
\* slot finds it allocated, and with no free by the application meanwhile the
\* allocated set is back to what it was when the handler returns.
C25_MDSlotHeldPerPair ==
    ck_kind \in MDKinds =>
        /\ MDHolds \subseteq allocated_ids
        /\ allocated_ids \ MDHolds \subseteq alloc0
        /\ (ck_pc = "done" /\ mem_signals = 0) => allocated_ids = alloc0
        /\ ck_pc # KeyError

\* The slots of the pairs a CK handler has completed, in pair order, as egp
\* records them.
CompletedSlots(puts, done) == [i \in 1 .. done |-> puts[i].holding]
AllDistinct(seq) == \A i, j \in 1 .. Len(seq) : i # j => seq[i] # seq[j]

\* What the completion of a pair does to the maps (C26, both forms): the map
\* of req.pid sends the virtual id at the pair's index of the qubit-id array
\* to the pair's slot and is otherwise as before, no other process's map
\* changes, no other step of the handler changes a map, and no step of the
\* stack frees a slot.
C26_MapStep ==
    ck_kind \in CKKinds =>
        LET v == qubit_ids(pair_index)
        IN  /\ Len(notify_at') > Len(notify_at) =>
                  /\ <<v, phys_id>> \in virt_map'[ReqPid]
                  /\ phys_id = SlotOfPair(pair_index)
                  /\ \A m \in virt_map'[ReqPid] : m[1] = v => m[2] = phys_id
                  /\ {m \in virt_map'[ReqPid] : m[1] # v}
                        = {m \in virt_map[ReqPid] : m[1] # v}
                  /\ \A p \in Pids \ {ReqPid} : virt_map'[p] = virt_map[p]
            /\ Len(notify_at') = Len(notify_at) => virt_map' = virt_map
            /\ mem_signals' = mem_signals => allocated_ids \subseteq allocated_ids'

\* C26 as claimed: in a CK handler the completion of pair i maps the virtual
\* id at index i of the qubit-id array to the slot allocated for pair i in
\* the map of the process, and in no other map; the stack never frees the
\* slot; and when the handler returns the N slots it has mapped are pairwise
\* distinct and all allocated.
C26_ReturnStep ==
    (ck_kind \in CKKinds /\ ck_pc # "done" /\ ck_pc' = "done") =>
        LET slots == CompletedSlots(egp_puts', num_pairs)
        IN  /\ AllDistinct(slots)
            /\ \A i \in 1 .. num_pairs : slots[i] \in allocated_ids'
C26_MappedSlotsDistinct == [][C26_MapStep /\ C26_ReturnStep]_vars

\* C26 as the code has it: the same, the N slots being pairwise distinct and
\* all allocated at the return when the application has freed no qubit while
\* the handler ran (a slot the application frees may be allocated again for
\* a later pair of the same request).
C26_ReturnStepNoFree ==
    (ck_kind \in CKKinds /\ ck_pc # "done" /\ ck_pc' = "done" /\ mem_signals' = 0) =>
        LET slots == CompletedSlots(egp_puts', num_pairs)
        IN  /\ AllDistinct(slots)
            /\ \A i \in 1 .. num_pairs : slots[i] \in allocated_ids'
C26_MappedSlotsDistinctWithoutFree == [][C26_MapStep /\ C26_ReturnStepNoFree]_vars

\* A CK request for two pairs has returned with no free meanwhile: the two
\* pairs are mapped to different slots.
C26_Witness ==
    /\ ck_kind \in CKKinds
    /\ ck_pc = "done"
    /\ num_pairs = 2
    /\ mem_signals = 0
    /\ virt_map[ReqPid] = {<<qubit_ids(0), SlotOfPair(0)>>, <<qubit_ids(1), SlotOfPair(1)>>}
    /\ SlotOfPair(0) # SlotOfPair(1)

\* The elements of the result array written by the first n writes.
WrittenBy(n) == {array_writes[j][1] : j \in 1 .. n}

\* C27: a CK handler, initiator or receiver, sends the processor one "wrote
\* to array" message per pair, after the pair's whole slice is written and
\* before it asks for the communication slot of the next pair: the k-th
\* message finds the slices of pairs 0..k-1 written in full, and a completed
\* request for N pairs has sent N messages.
C27_State ==
    ck_kind \in CKKinds =>
        /\ Len(notify_at) <= num_pairs
        /\ ck_pc = "done" => Len(notify_at) = num_pairs
        /\ Len(notify_at) = Len(egp_results) - (IF ck_pc = "wait_exec" THEN 1 ELSE 0)
        /\ Len(egp_puts) <= Len(notify_at) + 1
        /\ \A k \in 1 .. Len(notify_at) :
              /\ notify_at[k] = SER_RESPONSE_KEEP_LEN * k
              /\ notify_at[k] <= Len(array_writes)
              /\ WrittenBy(notify_at[k]) = 0 .. SER_RESPONSE_KEEP_LEN * k - 1
C27_Step ==
    ck_kind \in CKKinds =>
        /\ notify_at' # notify_at =>
              /\ Len(notify_at') = Len(notify_at) + 1
              /\ Len(array_writes') = Len(array_writes) + SER_RESPONSE_KEEP_LEN
              /\ notify_at'[Len(notify_at')] = Len(array_writes')
        /\ array_writes' # array_writes => notify_at' # notify_at
        /\ (last_call' # last_call /\ last_call'.op = "allocate_comm") =>
              Len(egp_puts) = Len(notify_at')
C27_CKNotifiesAfterEachSlice == []C27_State /\ [][C27_Step]_vars

\* A CK request for two pairs has completed: two messages, the first after
\* the ten writes of pair 0, the second after those of pair 1.
C27_Witness ==
    /\ ck_kind \in CKKinds
    /\ ck_pc = "done"
    /\ num_pairs = 2
    /\ notify_at = <<SER_RESPONSE_KEEP_LEN, 2 * SER_RESPONSE_KEEP_LEN>>
    /\ Len(array_writes) = 2 * SER_RESPONSE_KEEP_LEN

(***************************************************************************)
(* Properties of the peer handshake (checked under SpecHandshake)          *)
(***************************************************************************)
Last(q) == q[Len(q)]

RequestDescriptions == {"ReqCreateAndKeep", "ReqMeasureDirectly", "ReqRemoteStatePrep"}

\* C11: on a create request the initiator sends the request description to
\* the peer, and its per-pair handler (the allocations and the submissions
\* to the EGP) runs only after the peer's "ready" for that request has been
\* received, whatever the two stacks do, also when both handle a create
\* request towards each other.
C11_CreateWaitsForReady ==
    \A s \in Stacks :
        /\ (hs_req[s].kind = "create" /\ hs_pc[s] \in {"wait_peer"} \cup PairHandlers) =>
              /\ hs_sent[s] # <<>>
              /\ Last(hs_sent[s]) =
                    [to |-> hs_req[s].rem,
                     content |-> [type |-> hs_req[s].type, number |-> hs_req[s].number]]
        /\ (hs_req[s].kind = "create" /\ hs_pc[s] \in PairHandlers) =>
              hs_req[s].got = Ready
        /\ \A k \in 1 .. Len(hs_effects[s]) :
              hs_effects[s][k].kind = "create" => hs_effects[s][k].after = Ready

\* The receiver-side handler for the type of a request description.
ReceiverHandlerOf(type) ==
    IF type = "ReqCreateAndKeep" THEN "handle_receive_ck_request"
    ELSE IF type = "ReqMeasureDirectly" THEN "handle_receive_md_request"
    ELSE "none"

\* C12: on a receive request the receiver runs no per-pair handler (nothing
\* towards the EGP) before the peer's create message has arrived; taking
\* that message it sends one "ready" to the peer, and no other message for
\* the request; it then runs the receiver-side CK handler for a
\* create-and-keep description and the receiver-side MD handler for a
\* measure-directly one, for the number of pairs the message carries.
C12_State ==
    \A s \in Stacks :
        /\ (hs_req[s].kind = "receive" /\ hs_pc[s] = "wait_peer") =>
              /\ hs_req[s].got = NoMsg
              /\ \A k \in 1 .. Len(hs_effects[s]) :
                    hs_effects[s][k].request # hs_count[s]
        /\ (hs_req[s].kind = "receive" /\ hs_req[s].got # NoMsg) =>
              hs_req[s].got.type \in RequestDescriptions
        /\ (hs_req[s].kind = "receive" /\ hs_pc[s] \in PairHandlers) =>
              /\ hs_pc[s] = ReceiverHandlerOf(hs_req[s].got.type)
              /\ hs_req[s].number = hs_req[s].got.number
        /\ \A k \in 1 .. Len(hs_effects[s]) :
              LET e == hs_effects[s][k]
              IN  e.kind = "receive" =>
                      /\ e.handler = ReceiverHandlerOf(e.after.type)
                      /\ e.number = e.after.number
C12_Step ==
    \A s \in Stacks :
        /\ (hs_req[s].kind = "receive" /\ hs_pc[s] = "wait_peer"
                /\ hs_pc'[s] # "wait_peer") =>
              /\ hs_sent'[s] = Append(hs_sent[s], [to |-> PeerOf(s), content |-> Ready])
              /\ hs_req'[s].got = Head(hs_inbox[s])
              /\ hs_pc'[s] = (IF ReceiverHandlerOf(Head(hs_inbox[s]).type) = "none"
                              THEN "idle"
                              ELSE ReceiverHandlerOf(Head(hs_inbox[s]).type))
        /\ (hs_req[s].kind = "receive" /\ hs_req'[s].kind = "receive"
                /\ hs_sent'[s] # hs_sent[s]) =>
              hs_pc[s] = "wait_peer"
C12_ReceiveAcknowledgesThenRuns == []C12_State /\ [][C12_Step]_vars

\* A receiver that has sent its one "ready" and run the MD handler for the
\* two pairs of the peer's description.
C12_Witness ==
    \E s \in Stacks :
        /\ hs_sent[s] = <<[to |-> PeerOf(s), content |-> Ready]>>
        /\ Len(hs_effects[s]) = 1
        /\ hs_effects[s][1].handler = "handle_receive_md_request"
        /\ hs_effects[s][1].number = 2
        /\ hs_effects[s][1].after = [type |-> "ReqMeasureDirectly", number |-> 2]

\* The request handed to stack s in this step names a socket that is open.
SocketIsOpen(s) ==
    /\ hs_sockets[s].exists
    /\ <<hs_req'[s].pid, hs_req'[s].sck, hs_req'[s].rem>> \in hs_sockets[s].socks

\* Stack s is handed a request in this step.
RequestStarts(s) == hs_count'[s] = hs_count[s] + 1

\* C17: a create or receive request whose (pid, socket id, remote node id)
\* is not that of an open socket ends in a fault at once: no message to the
\* peer, no per-pair handler (no allocation, no submission to the EGP, no
\* result written), then or later.  A socket open under another pid,
\* another socket id or another remote node does not count.
C17_Step ==
    \A s \in Stacks :
        /\ (RequestStarts(s) /\ ~SocketIsOpen(s)) =>
              /\ hs_pc'[s] \in {"AssertionError", "AttributeError"}
              /\ hs_sent' = hs_sent
              /\ hs_inbox' = hs_inbox
              /\ hs_effects' = hs_effects
        /\ hs_pc[s] \in {"AssertionError", "AttributeError"} =>
              /\ hs_pc'[s] = hs_pc[s]
              /\ hs_sent'[s] = hs_sent[s]
              /\ hs_effects'[s] = hs_effects[s]
C17_MissingSocketIsRejected == [][C17_Step]_vars

\* A request for socket 1 of pid 0 rejected on a stack where socket 0 of pid
\* 0 to the same node is open.
C17_Witness ==
    \E s \in Stacks :
        /\ hs_pc[s] = "AssertionError"
        /\ hs_count[s] = 1
        /\ hs_sockets[s].socks = {<<0, 0, PeerOf(s)>>}
        /\ <<hs_req[s].pid, hs_req[s].sck, hs_req[s].rem>> = <<0, 1, PeerOf(s)>>
        /\ hs_sent[s] = <<>>
        /\ hs_effects[s] = <<>>

\* C18: a create request whose argument array carries a type code that
\* _construct_request does not know ends in a fault before the request
\* description is sent: the peer receives nothing for it and no per-pair
\* handler runs.
C18_Step ==
    \A s \in Stacks :
        /\ (RequestStarts(s) /\ hs_req'[s].kind = "create"
                /\ hs_req'[s].typ \notin {NoneCode, 0, 1, 2}) =>
              /\ hs_pc'[s] \in Faults
              /\ hs_sent' = hs_sent
              /\ hs_inbox' = hs_inbox
              /\ hs_effects' = hs_effects
        /\ hs_pc[s] = "ValueError" =>
              /\ hs_pc'[s] = "ValueError"
              /\ hs_sent'[s] = hs_sent[s]
              /\ hs_effects'[s] = hs_effects[s]
C18_UnsupportedTypeIsRejected == [][C18_Step]_vars

\* A create request with type code 3 on its open socket, ended by
\* ValueError, the peer waiting in a receive request with nothing received.
C18_Witness ==
    \E s \in Stacks :
        /\ hs_pc[s] = "ValueError"
        /\ hs_req[s].typ = 3
        /\ <<hs_req[s].pid, hs_req[s].sck, hs_req[s].rem>> \in hs_sockets[s].socks
        /\ hs_sent[s] = <<>>
        /\ hs_pc[PeerOf(s)] = "wait_peer"
        /\ hs_inbox[PeerOf(s)] = <<>>

\* C32: a create or receive handler whose wait for the peer ends without a
\* fault goes on to one of the four per-pair handlers (which write the N
\* slices and notify the processor); it does not return to the dispatch loop
\* from there, whatever type code _construct_request accepted and whatever
\* the peer message was.
C32_Step ==
    \A s \in Stacks :
        (hs_pc[s] = "wait_peer" /\ hs_pc'[s] # "wait_peer") =>
            /\ hs_pc'[s] \in PairHandlers
            /\ hs_req'[s].type \in {"ReqCreateAndKeep", "ReqMeasureDirectly"}
C32_HandshakeLeadsToPairHandler == [][C32_Step]_vars

(***************************************************************************)
(* Properties of the dispatch loop (checked under SpecRun)                 *)
(***************************************************************************)
\* The numbers of the requests among the messages msgs, in order.
RECURSIVE RequestIds(_)
RequestIds(msgs) ==
    IF msgs = <<>> THEN <<>>
    ELSE IF Head(msgs).content \in RequestKinds
         THEN <<Head(msgs).id>> \o RequestIds(Tail(msgs))
         ELSE RequestIds(Tail(msgs))

\* C10: a stack has at most one handler in progress; run dispatches a
\* request only when every request dispatched before has had its handler
\* return, so a request submitted while a handler is in progress waits for
\* that handler; and the requests are dispatched in the order submitted.
C10_State ==
    /\ Cardinality(active) <= 1
    /\ IsPrefix(dispatched, RequestIds(submitted))
    /\ IsPrefix(completed, dispatched)
    /\ \A k \in 1 .. Len(dispatched) :
          LET m == submitted[dispatched[k]]
          IN  m.during # 0 => \E j \in 1 .. Len(completed) : completed[j] = m.during
C10_Step ==
    Len(dispatched') > Len(dispatched) =>
        /\ active = {}
        /\ completed = dispatched
C10_OneRequestAtATime == []C10_State /\ [][C10_Step]_vars

\* Two requests submitted while the first handler was in progress have been
\* dispatched, in their order, each after the one before had returned.
C10_Witness ==
    /\ Len(dispatched) >= 3
    /\ Len(completed) >= 2
    /\ submitted[dispatched[2]].during = dispatched[1]
    /\ submitted[dispatched[3]].during = dispatched[1]
    /\ active # {}

(***************************************************************************)
(* Properties of ComponentProtocol (checked under SpecComponent)           *)
(***************************************************************************)
\* The listeners are running exactly as far as the owner's flag allows: an
\* owned listener that runs has a running owner.
C33_State == \A l \in Owned : l \in cp_started => cp_running

\* start returns with every owned listener running, and the owner's own stop
\* happens with no owned listener running.
C33_Step ==
    /\ (cp_pc = "start" /\ cp_pc' = "idle") =>
            /\ cp_running'
            /\ Owned' \subseteq cp_started'
    /\ (cp_pc = "idle" /\ cp_pc' = "idle" /\ ~cp_running /\ cp_running') =>
            Owned' = {}
    /\ (cp_running /\ ~cp_running') => Owned \cap cp_started = {}

\* C33: starting a component protocol starts every listener it owns, and
\* stopping it stops every owned listener before the protocol itself is
\* stopped, so that in no reachable state an owned listener is running while
\* its owner is stopped.
C33_ListenersFollowOwner == []C33_State /\ [][C33_Step]_vars

\* stop has stopped the first of two running listeners and not yet the
\* second, and the owner is still running.
C33_Witness ==
    /\ cp_pc = "stop"
    /\ Len(cp_listeners) = 2
    /\ cp_next = 2
    /\ cp_listeners[1][2] \notin cp_started
    /\ cp_listeners[2][2] \in cp_started
    /\ cp_running

=============================================================================
